---- MODULE Spec2Model ----
(***************************************************************************)
(* Model of scripts/target.py: the two annotation resolvers                *)
(* create_tok_span_anno_target and create_tok_span_anno_achieved, which     *)
(* turn a list of lexical tokens into the tok, span and anno dictionaries.  *)
(*                                                                         *)
(* A Python str is a sequence of characters, a character a one-letter      *)
(* string.  A Python dict is a sequence of [k, v] entries in insertion     *)
(* order.  The key "tok" + str(n) is the pair <<"tok", n>> and the key      *)
(* "sSpan" + str(n) the pair <<"sSpan", n>>.                                *)
(***************************************************************************)
EXTENDS Integers, Sequences, FiniteSets, TLC

----------------------------------------------------------------------------
(* Python str operations used by target.py                                 *)

Whitespace == {" ", "\t", "\n"}

UpperCase ==
    {"A","B","C","D","E","F","G","H","I","J","K","L","M",
     "N","O","P","Q","R","<<",">>T","U","V","W","X","Y","Z"}

Digits == {"0","1","2","3","4","5","6","7","8","9"}

\* int(c) for a one-character string c
IntOfChar(c) ==
    CASE c = "0" -> 0 [] c = "1" -> 1 [] c = "2" -> 2 [] c = "3" -> 3
      [] c = "4" -> 4 [] c = "5" -> 5 [] c = "6" -> 6 [] c = "7" -> 7
      [] c = "8" -> 8 [] c = "9" -> 9

\* s[a:b] with Python's clamping of negative and oversized bounds
PySlice(s, a, b) ==
    LET n  == Len(s)
        lo == IF a < 0 THEN (IF a + n < 0 THEN 0 ELSE a + n) ELSE (IF a > n THEN n ELSE a)
        hi == IF b < 0 THEN (IF b + n < 0 THEN 0 ELSE b + n) ELSE (IF b > n THEN n ELSE b)
    IN  IF lo >= hi THEN <<>> ELSE SubSeq(s, lo + 1, hi)

\* s[a:]
PyFrom(s, a) == PySlice(s, a, Len(s))

\* s[:b]
PyUpTo(s, b) == PySlice(s, 0, b)

\* the one-character string s[i], a negative i counting from the end
PyChar(s, i) == IF i < 0 THEN <<s[Len(s) + i + 1]>> ELSE <<s[i + 1]>>

\* whether p occurs in s at the 1-based place i
OccursAt(s, p, i) ==
    /\ i + Len(p) - 1 <= Len(s)
    /\ \A k \in 1..Len(p) : s[i + k - 1] = p[k]

\* p in s
Contains(s, p) == \E i \in 1..(Len(s) + 1) : OccursAt(s, p, i)

\* s.endswith(p)
EndsWith(s, p) == Len(p) <= Len(s) /\ OccursAt(s, p, Len(s) - Len(p) + 1)

\* s.count(c) for a one-character c
Count(s, c) == Cardinality({i \in 1..Len(s) : s[i] = c})

\* all(c == "*" for c in s)
AllStars(s) == \A i \in 1..Len(s) : s[i] = "*"

RECURSIVE SplitFrom(_, _, _, _)
SplitFrom(s, sep, i, start) ==
    IF i > Len(s) THEN <<SubSeq(s, start, Len(s))>>
    ELSE IF OccursAt(s, sep, i)
         THEN <<SubSeq(s, start, i - 1)>> \o SplitFrom(s, sep, i + Len(sep), i + Len(sep))
         ELSE SplitFrom(s, sep, i + 1, start)

\* s.split(sep)
Split(s, sep) == SplitFrom(s, sep, 1, 1)

\* s.split(): the runs of characters that are not white space, in order
SplitWs(s) ==
    LET starts   == {i \in 1..Len(s) :
                        s[i] \notin Whitespace /\ (i = 1 \/ s[i - 1] \in Whitespace)}
        Start(k) == CHOOSE i \in starts : Cardinality({p \in starts : p < i}) = k - 1
        End(i)   == CHOOSE j \in i..Len(s) :
                        /\ j = Len(s) \/ s[j + 1] \in Whitespace
                        /\ \A k \in i..j : s[k] \notin Whitespace
    IN  IF starts = {} THEN <<>>
        ELSE [k \in 1..Cardinality(starts) |-> SubSeq(s, Start(k), End(Start(k)))]

RECURSIVE Join(_)
\* ''.join(parts)
Join(parts) == IF parts = <<>> THEN <<>> ELSE Head(parts) \o Join(Tail(parts))

RECURSIVE Repeat(_, _)
\* what a loop of n rounds of  acc += piece  appends
Repeat(piece, n) == IF n <= 0 THEN <<>> ELSE piece \o Repeat(piece, n - 1)

----------------------------------------------------------------------------
(* Regular expressions of target.py: every pattern used there is an        *)
(* alternation of fixed-length sequences of character classes.             *)

Lit(c) == [any |-> FALSE, cs |-> {c}]

Dot == [any |-> TRUE, cs |-> {}]

Cls(set) == [any |-> FALSE, cs |-> set]

InClass(c, cl) == IF cl.any THEN c # "\n" ELSE c \in cl.cs

\* the alternatives, in the order the patterns list them
P_star == <<Lit("*")>>

P_pgf == <<Lit("§")>>

P_dd == <<Lit("-"), Lit("-")>>

P_eq == <<Lit("=")>>

P_curlyAny == <<Lit("{"), Dot, Lit("}")>>

P_curlyUpper == <<Lit("{"), Cls(UpperCase), Lit("}")>>

P_curlyDigit == <<Lit("{"), Cls(Digits), Lit("}")>>

P_tilde == <<Lit("~")>>

P_us == <<Lit("_")>>

P_rbr == <<Lit("]")>>

P_lbr == <<Lit("[")>>

P_lbrPgfSp == <<Lit("["), Lit("§"), Lit(" ")>>

P_pgfLbrPgfSp == <<Lit("§"), Lit("["), Lit("§"), Lit(" ")>>

P_spPgfRbr == <<Lit(" "), Lit("§"), Lit("]")>>

MatchAt(pat, s, i) ==
    /\ i + Len(pat) - 1 <= Len(s)
    /\ \A k \in 1..Len(pat) : InClass(s[i + k - 1], pat[k])

\* the first alternative matching at i, 0 when none does
FirstAlt(alts, s, i) ==
    IF \E a \in 1..Len(alts) : MatchAt(alts[a], s, i)
    THEN CHOOSE a \in 1..Len(alts) :
            /\ MatchAt(alts[a], s, i)
            /\ \A b \in 1..(a - 1) : ~MatchAt(alts[b], s, i)
    ELSE 0

RECURSIVE FindAllFrom(_, _, _)
FindAllFrom(alts, s, i) ==
    IF i > Len(s) THEN <<>>
    ELSE LET a == FirstAlt(alts, s, i)
         IN  IF a = 0 THEN FindAllFrom(alts, s, i + 1)
             ELSE <<SubSeq(s, i, i + Len(alts[a]) - 1)>>
                    \o FindAllFrom(alts, s, i + Len(alts[a]))

\* re.findall(alts, s), its tuples of groups flattened to the non-empty
\* group of each match, as the loops after every findall do
FindAll(alts, s) == FindAllFrom(alts, s, 1)

RECURSIVE SubFrom(_, _, _, _)
SubFrom(pat, repl, s, i) ==
    IF i > Len(s) THEN <<>>
    ELSE IF MatchAt(pat, s, i)
         THEN repl \o SubFrom(pat, repl, s, i + Len(pat))
         ELSE <<s[i]>> \o SubFrom(pat, repl, s, i + 1)

\* re.sub(pat, repl, s)
Sub(pat, repl, s) == SubFrom(pat, repl, s, 1)

\* re.sub(r'\[§.+\]', '', s): greedy, from the first "[§" that has a "]"
\* at least one character later, to the last "]" of s
SubBracketPgfGreedy(s) ==
    LET starts == {i \in 1..Len(s) :
                     /\ OccursAt(s, <<"[","§">>, i)
                     /\ \E j \in (i + 3)..Len(s) :
                          /\ s[j] = "]"
                          /\ \A k \in (i + 2)..(j - 1) : s[k] # "\n"}
    IN  IF starts = {} THEN s
        ELSE LET i  == CHOOSE x \in starts : \A y \in starts : x <= y
                 js == {j \in (i + 3)..Len(s) :
                          /\ s[j] = "]"
                          /\ \A k \in (i + 2)..(j - 1) : s[k] # "\n"}
                 j  == CHOOSE x \in js : \A y \in js : y <= x
             IN  SubSeq(s, 1, i - 1) \o SubSeq(s, j + 1, Len(s))

----------------------------------------------------------------------------
(* Python dict: entries in insertion order; assigning to a key that is     *)
(* present keeps its place.                                                *)

DictKeys(d) == {d[i].k : i \in 1..Len(d)}

DictHas(d, key) == \E i \in 1..Len(d) : d[i].k = key

DictGet(d, key) == d[CHOOSE i \in 1..Len(d) : d[i].k = key].v

DictSet(d, key, val) ==
    IF DictHas(d, key)
    THEN [i \in 1..Len(d) |-> IF d[i].k = key THEN [k |-> key, v |-> val] ELSE d[i]]
    ELSE Append(d, [k |-> key, v |-> val])

\* "tok" + str(n)
TokKey(n) == <<"tok", n>>

\* "sSpan" + str(count), off by one as in the docstring's span1, span2, ...
SpanKeyFromOne(count) == <<"sSpan", count + 1>>

\* "sSpan" + str(count)
SpanKey(count) == <<"sSpan", count>>

\* a span value that is one token key
One(key) == [list |-> FALSE, toks |-> <<key>>]

\* a span value that is a list of token keys
List(keys) == [list |-> TRUE, toks |-> keys]

----------------------------------------------------------------------------
(* The locals of one resolver call: the three dictionaries, the counter    *)
(* count_tok_insertions (cti), the locals item_a and item_b, which keep    *)
(* their value from one round of the loop to the next, and whether the     *)
(* call has raised.                                                         *)

Unbound == [bound |-> FALSE, val |-> <<>>]

Bound(s) == [bound |-> TRUE, val |-> s]

Locals0 ==
    [tok |-> <<>>, span |-> <<>>, anno |-> <<>>, cti |-> 0,
     item_a |-> Unbound, item_b |-> Unbound, err |-> FALSE]

\* an IndexError, ValueError or UnboundLocalError leaves the call
Raise(st) == [st EXCEPT !.err = TRUE]

\* the same with an empty annotation list written for the span
PutOneBareEmptyAnno(st, count, text) ==
    LET key == TokKey(count + st.cti)
    IN  [st EXCEPT !.tok  = DictSet(@, key, text),
                   !.span = DictSet(@, SpanKey(count), One(key)),
                   !.anno = DictSet(@, SpanKey(count), <<>>)]

\* tok[key] = text; span[sSpan(count)] = key, with no annotation
PutOneBare(st, count, text) ==
    LET key == TokKey(count + st.cti)
    IN  [st EXCEPT !.tok  = DictSet(@, key, text),
                   !.span = DictSet(@, SpanKey(count), One(key))]

\* the annotation written without the span it belongs to
PutOneOrphanAnno(st, count, text, tags) ==
    LET key == TokKey(count + st.cti)
    IN  [st EXCEPT !.tok  = DictSet(@, key, text),
                   !.anno = DictSet(@, SpanKey(count), tags)]

\* tok[key] = text; span[sSpan(count)] = key; anno[sSpan(count)] = tags
PutOne(st, count, text, tags) ==
    LET key == TokKey(count + st.cti)
    IN  [st EXCEPT !.tok  = DictSet(@, key, text),
                   !.span = DictSet(@, SpanKey(count), One(key)),
                   !.anno = DictSet(@, SpanKey(count), tags)]

\* as PutOne, the span holding the one-element list [key]
PutOneList(st, count, text, tags) ==
    LET key == TokKey(count + st.cti)
    IN  [st EXCEPT !.tok  = DictSet(@, key, text),
                   !.span = DictSet(@, SpanKey(count), List(<<key>>)),
                   !.anno = DictSet(@, SpanKey(count), tags)]

RECURSIVE SetToksLastFirst(_, _, _)
\* the same tokens written from the last one to the first one
SetToksLastFirst(tok, first, texts) ==
    IF texts = <<>> THEN tok
    ELSE DictSet(SetToksLastFirst(tok, first + 1, Tail(texts)),
                 TokKey(first), Head(texts))

RECURSIVE SetToks(_, _, _)
\* tok[first] = texts[1]; tok[first + 1] = texts[2]; ...
SetToks(tok, first, texts) ==
    IF texts = <<>> THEN tok
    ELSE SetToks(DictSet(tok, TokKey(first), Head(texts)), first + 1, Tail(texts))

\* the keys of n tokens from the key after first on
KeysFromNext(first, n) == [k \in 1..n |-> TokKey(first + k)]

\* the keys of n tokens from first on
KeysFrom(first, n) == [k \in 1..n |-> TokKey(first + k - 1)]

\* n tokens in one span list without the counter being raised
PutManyBareKeepCounter(st, count, texts) ==
    LET first == count + st.cti
    IN  [st EXCEPT !.tok  = SetToks(@, first, texts),
                   !.span = DictSet(@, SpanKey(count), List(KeysFrom(first, Len(texts))))]

\* n >= 1 tokens with consecutive keys in one span list, the counter
\* raised by n - 1; the annotation is left to the caller
PutManyBare(st, count, texts) ==
    LET first == count + st.cti
    IN  [st EXCEPT !.tok  = SetToks(@, first, texts),
                   !.span = DictSet(@, SpanKey(count), List(KeysFrom(first, Len(texts)))),
                   !.cti  = @ + Len(texts) - 1]

\* the tokens of PutMany with the annotation list in the reverse order
PutManyTagsReversed(st, count, texts, tags) ==
    [PutManyBare(st, count, texts) EXCEPT
        !.anno = DictSet(@, SpanKey(count),
                         [k \in 1..Len(tags) |-> tags[Len(tags) + 1 - k]])]

PutMany(st, count, texts, tags) ==
    [PutManyBare(st, count, texts) EXCEPT !.anno = DictSet(@, SpanKey(count), tags)]

\* if key in anno: anno[key].append(each of more)  else: anno[key] = more
AnnoExtend(st, count, more) ==
    LET key == SpanKey(count)
    IN  [st EXCEPT !.anno = IF DictHas(@, key)
                            THEN DictSet(@, key, DictGet(@, key) \o more)
                            ELSE DictSet(@, key, more)]

----------------------------------------------------------------------------
(* create_tok_span_anno_target                                             *)

\* '=' deleted instead of exchanged with '-'
NormTargetDropEquals(item) ==
    LET item_nostar       == Sub(P_star, <<>>, item)
        item_nopgf        == Sub(P_pgf, <<>>, item_nostar)
        item_nodoubledash == Sub(P_dd, <<>>, item_nopgf)
        item_noequals     == Sub(P_eq, <<>>, item_nodoubledash)
    IN  Sub(P_curlyAny, <<>>, item_noequals)

\* item_nostar .. item_nocurly: * § -- deleted, = exchanged with -, {.} deleted
NormTarget(item) ==
    LET item_nostar       == Sub(P_star, <<>>, item)
        item_nopgf        == Sub(P_pgf, <<>>, item_nostar)
        item_nodoubledash == Sub(P_dd, <<>>, item_nopgf)
        item_noequals     == Sub(P_eq, <<"-">>, item_nodoubledash)
    IN  Sub(P_curlyAny, <<>>, item_noequals)

\* the same followed by the deletion of ~
NormTargetNoTilde(item) == Sub(P_tilde, <<>>, NormTarget(item))

TargetTildeSplit == {<<"N","u","l","l","~","K","a","l","o","r","i","e","n">>, <<"K","i","n","g","{","N","}","~","K","o","n","g","{","N","}">>, <<"3","~","M","a","l">>}

\* the special cases that end the round at once: _B and _Karten
TargetIsUnderscoreLiteral(item) == item = <<"_","B">> \/ item = <<"_","K","a","r","t","e","n">>

\* {N}, {F}, {G} as an item of their own
IsBareTag(item) == item = <<"{","N","}">> \/ item = <<"{","F","}">> \/ item = <<"{","G","}">>

\* a token that is written although the item has an annotation symbol
TargetSymbolsKeepItem(st, count, item) ==
    LET symbols == FindAll(<<P_star, P_pgf, P_dd, P_eq, P_curlyAny>>, item)
    IN  IF Len(symbols) > 0
        THEN PutOne(st, count, item,
                    FindAll(<<P_star, P_pgf, P_dd, P_eq, P_curlyAny, P_tilde>>, item))
        ELSE PutOneBare(st, count, item)

\* the symbols * § -- = {.} of a plain item, or the item as it is
TargetSymbols(st, count, item) ==
    LET symbols == FindAll(<<P_star, P_pgf, P_dd, P_eq, P_curlyAny>>, item)
    IN  IF Len(symbols) > 0
        THEN PutOne(st, count, NormTargetNoTilde(item),
                    FindAll(<<P_star, P_pgf, P_dd, P_eq, P_curlyAny, P_tilde>>, item))
        ELSE PutOneBare(st, count, item)

\* the underscore of a plain item
TargetUnderscore(st, count, item) ==
    LET symbol_underscore == FindAll(<<P_us>>, item)
    IN  IF Len(symbol_underscore) = 0 THEN st
        ELSE IF item = <<"C","h","a","m","p","i","o","n","s","{","F","}","~","_","l","e","a","g","u","e","{","F","}">>
        THEN AnnoExtend(PutManyBare(st, count, <<<<"C","h","a","m","p","i","o","n","s">>, <<"L","e","a","g","u","e">>>>),
                        count, <<<<"~">>, <<"_">>>>)
        ELSE IF Len(symbol_underscore) > 1
        THEN LET symbol_list ==
                    FindAll(<<P_star, P_pgf, P_dd, P_eq, P_curlyAny, P_tilde, P_us>>, item)
                 item_list == Split(item, <<"_">>)
             IN  PutMany(st, count,
                         [k \in 1..Len(item_list) |-> NormTargetNoTilde(item_list[k])],
                         symbol_list)
        ELSE LET item_normalized == NormTarget(item)
                 parts == Split(item_normalized, <<"_">>)
             IN  IF Len(parts) < 2 THEN Raise(st)
                 ELSE AnnoExtend(PutManyBare(st, count, <<parts[1], parts[2]>>),
                                 count, <<<<"_">>>>)

\* the tilde of a plain item: two tokens for the three listed items only
TargetTilde(st, count, item) ==
    LET symbol_tilde == FindAll(<<P_tilde>>, item)
    IN  IF Len(symbol_tilde) > 0 /\ item \in TargetTildeSplit
        THEN LET parts == Split(NormTarget(item), <<"~">>)
             IN  AnnoExtend(PutManyBare(st, count, <<parts[1], parts[2]>>),
                            count, <<<<"~">>>>)
        ELSE st

\* an item without "["
TargetPlain(st, count, item) ==
    IF TargetIsUnderscoreLiteral(item)
    THEN PutOne(st, count, PyFrom(item, 1), <<<<"_">>>>)
    ELSE IF AllStars(item)
    THEN PutOne(st, count, item, <<<<"*">>>>)
    ELSE IF IsBareTag(item)
    THEN [st EXCEPT !.cti = @ - 1]
    ELSE LET s1 == TargetSymbols(st, count, item)
             s2 == TargetUnderscore(s1, count, item)
         IN  IF s2.err THEN s2 ELSE TargetTilde(s2, count, item)

\* item.count("[") == 1 and item[0] == '[' and item[-1] == ']'
IsSimpleBracket(item) ==
    /\ Count(item, "[") = 1
    /\ item[1] = "["
    /\ item[Len(item)] = "]"

\* the simple brackets with the "]" left at the word of [§ b]
TargetSimpleBracketKeepBracket(st, count, item) ==
    LET parts == SplitWs(item)
    IN  IF Len(parts) < 2 THEN Raise(st)
        ELSE LET first  == parts[1]
                 second == parts[2]
             IN  IF Contains(second, <<"§">>) THEN [st EXCEPT !.cti = @ - 1]
                 ELSE IF Contains(first, <<"§">>)
                 THEN PutOne(st, count, second, <<item>>)
                 ELSE IF Contains(second, <<"*">>)
                 THEN PutOne(st, count, PyFrom(first, 1), <<item>>)
                 ELSE PutOne(st, count, PyUpTo(second, Len(second) - 1), <<item>>)

\* [§ b], [a §], [a *], [a b]
TargetSimpleBracket(st, count, item) ==
    LET parts == SplitWs(item)
    IN  IF Len(parts) < 2 THEN Raise(st)
        ELSE LET first  == parts[1]
                 second == parts[2]
             IN  IF Contains(second, <<"§">>) THEN [st EXCEPT !.cti = @ - 1]
                 ELSE IF Contains(first, <<"§">>)
                 THEN PutOne(st, count, PyUpTo(second, Len(second) - 1), <<item>>)
                 ELSE IF Contains(second, <<"*">>)
                 THEN PutOne(st, count, PyFrom(first, 1), <<item>>)
                 ELSE PutOne(st, count, PyUpTo(second, Len(second) - 1), <<item>>)

\* x_[a §]: one token
TargetUsBracketPgf(st, count, item) ==
    PutOne(st, count, Split(item, <<"_","[">>)[1], <<<<"_">>, Split(item, <<"_">>)[2]>>)

\* x_[a b] and [a b]_[c d]: two tokens
TargetUsBracket(st, count, item) ==
    LET item_a == Split(item, <<"_">>)[1]
        item_b == Split(item, <<"_">>)[2]
    IN  IF Contains(item_a, <<" ">>)
        THEN IF Len(SplitWs(item_a)) < 2 \/ Len(SplitWs(item_b)) < 2 THEN Raise(st)
             ELSE LET item_a_norm == SplitWs(item_a)[2]
                      item_b_norm == SplitWs(item_b)[2]
                  IN  PutMany(st, count,
                              <<PyUpTo(item_a_norm, Len(item_a_norm) - 1),
                                PyUpTo(item_b_norm, Len(item_b_norm) - 1)>>,
                              <<item_a, <<"_">>, item_b>>)
        ELSE IF Len(SplitWs(item_b)) < 2 THEN Raise(st)
             ELSE LET item_b_norm == SplitWs(item_b)[2]
                  IN  PutMany(st, count,
                              <<item_a, PyUpTo(item_b_norm, Len(item_b_norm) - 1)>>,
                              <<<<"_">>, item_b>>)

\* [a b]_x and [a b]_x{G}: two tokens
TargetBracketUs(st, count, item) ==
    LET item_a == Split(item, <<"_">>)[1]
        item_b == Split(item, <<"_">>)[2]
    IN  IF Len(SplitWs(item_a)) < 2 THEN Raise(st)
        ELSE LET item_a_norm == SplitWs(item_a)[2]
                 item_a_normalized == PyUpTo(item_a_norm, Len(item_a_norm) - 1)
             IN  IF Contains(item_b, <<"{">>)
                 THEN LET annotation == FindAll(<<P_curlyAny>>, item_b)
                      IN  IF Len(annotation) = 0 THEN Raise(st)
                          ELSE PutMany(st, count,
                                       <<item_a_normalized, Sub(P_curlyAny, <<>>, item_b)>>,
                                       <<item_a, <<"_">>, annotation[1]>>)
                 ELSE PutMany(st, count, <<item_a_normalized, item_b>>, <<item_a, <<"_">>>>)

\* x_y[§ b]: two tokens
TargetUsPgfBracket(st, count, item) ==
    LET item_a == Split(item, <<"_">>)[1]
        item_b == Split(item, <<"_">>)[2]
        item_b_norm == Sub(P_lbrPgfSp, <<>>, item_b)
        item_b_normalized == Sub(P_rbr, <<>>, item_b_norm)
    IN  IF Len(SplitWs(item_b)) < 2 THEN Raise(st)
        ELSE PutMany(st, count, <<item_a, item_b_normalized>>,
                     <<<<"_">>, <<"[","§"," ">> \o SplitWs(item_b)[2]>>)

\* x§[§ b]: one token
TargetPgfBracket(st, count, item) ==
    LET item_norm == Sub(P_pgfLbrPgfSp, <<>>, item)
        item_normalized == Sub(P_rbr, <<>>, item_norm)
    IN  PutOneList(st, count, item_normalized,
                   <<<<"§">>, <<"[">> \o Split(item, <<"[">>)[2]>>)

\* every other item with "[": the listed literals, then the shapes; an item
\* that is none of them is passed over without a token and without a
\* change of the counter
TargetComplexBracket(st, count, item) ==
    IF Contains(item, <<"N","o","t","f","a","l","l","[","."," ","§","]","_","g","e","l","d">>)
    THEN PutOne(st, count, <<"N","o","t","f","a","l","l","g","e","l","d">>, <<<<"[","."," ","§","]">>, <<"_">>, <<"§">>>>)
    ELSE IF Contains(item, <<"[","§"," ","i","r","g","e","n","d","]","w","o","h","i","n">>)
    THEN PutOne(st, count, <<"i","r","g","e","n","d","w","o","h","i","n">>, <<<<"[","§"," ","i","r","g","e","n","d","]">>>>)
    ELSE IF item = <<"W","i","e","_","[","s"," ","h","e","i","ß","t","]","_","d","e","r">>
    THEN PutMany(st, count, <<<<"W","i","e">>, <<"h","e","i","ß","t">>, <<"d","e","r">>>>,
                 <<<<"_">>, <<"[","s"," ","h","e","i","ß","t","]">>, <<"_">>>>)
    ELSE IF item = <<"r","e","n","n","t","_","e","r","_","[","§"," ",".","]","_","H","e","u","t","e">>
    THEN PutMany(st, count, <<<<"r","e","n","n","t">>, <<"e","r">>, <<".">>, <<"H","e","u","t","e">>>>,
                 <<<<"_">>, <<"_">>, <<"[","§"," ",".","]">>, <<"_">>>>)
    ELSE IF item = <<"e","r","_","w","a","r","_","[","z","u","f","*","i","d","e","n"," ","z","u","f","r","i","e","d","e","n","]">>
    THEN PutMany(st, count, <<<<"e","r">>, <<"w","a","r">>, <<"z","u","f","r","i","e","d","e","n">>>>,
                 <<<<"_">>, <<"_">>, <<"[","z","u","f","*","i","d","e","n"," ","z","u","f","r","i","e","d","e","n","]">>>>)
    ELSE IF item = <<"G","e","b","u","r","t","s","t","a","g","s","[","§"," ","g","e","s","c","h","e","n","k","]">>
    THEN PutOneList(st, count, <<"G","e","b","u","r","t","s","t","a","g","s","g","e","s","c","h","e","n","k">>, <<<<"[","§"," ","g","e","s","c","h","e","n","k","]">>>>)
    ELSE IF item = <<"K","r","i","m","i","n","a","l","§","[","P","o","l","i","z","e","i"," ","p","o","l","i","z","i","s","t","]">>
    THEN PutOneList(st, count, <<"K","r","i","m","i","n","a","l","p","o","l","i","z","i","s","t">>, <<<<"§">>, <<"[","P","o","l","i","z","e","i"," ","p","o","l","i","z","i","s","t","]">>>>)
    ELSE IF item = <<"k","m","[","§"," ","/","]","h","{","F","}">>
    THEN PutOneList(st, count, <<"k","m","/","h">>, <<<<"[","§"," ","/","]">>, <<"{","F","}">>>>)
    ELSE IF item = <<"2","4","[","."," ",":","]","0","0">>
    THEN PutOneList(st, count, <<"2","4",":","0","0">>, <<<<"[","."," ",":","]">>>>)
    ELSE IF item = <<"9","[","."," ",":","]","3","0">>
    THEN PutOneList(st, count, <<"9",":","3","0">>, <<<<"[","."," ",":","]">>>>)
    ELSE IF item = <<"b","[","."," ","§","]","z","[","."," ","§","]","w">>
    THEN PutOneList(st, count, <<"b","z","w">>, <<<<"[","."," ","§","]">>, <<"[","."," ","§","]">>>>)
    ELSE IF item = <<"u","[","."," ","§","]","s","[","."," ","§","]","w">>
    THEN PutOneList(st, count, <<"u","s","w">>, <<<<"[","."," ","§","]">>, <<"[","."," ","§","]">>>>)
    ELSE IF item = <<"u","s","[","."," ","§","]","w">>
    THEN PutOneList(st, count, <<"u","s","w">>, <<<<"[","."," ","§","]">>>>)
    ELSE IF Contains(item, <<"_","[">>) /\ Contains(item, <<"§","]">>)
    THEN TargetUsBracketPgf(st, count, item)
    ELSE IF Contains(item, <<"_","[">>)
    THEN TargetUsBracket(st, count, item)
    ELSE IF Contains(item, <<"]","_">>)
    THEN TargetBracketUs(st, count, item)
    ELSE IF Contains(item, <<"_">>) /\ Contains(item, <<"[","§">>)
    THEN TargetUsPgfBracket(st, count, item)
    ELSE IF Contains(item, <<"§","[","§">>)
    THEN TargetPgfBracket(st, count, item)
    ELSE st

\* one round of the loop of create_tok_span_anno_target
TargetItem(st, count, item) ==
    IF ~Contains(item, <<"[">>) THEN TargetPlain(st, count, item)
    ELSE IF IsSimpleBracket(item) THEN TargetSimpleBracket(st, count, item)
    ELSE TargetComplexBracket(st, count, item)

----------------------------------------------------------------------------
(* create_tok_span_anno_achieved                                           *)

\* _ and -- deleted, ~ exchanged with -, {[A-Z]} deleted
NormAchieved(item) ==
    LET item_nounderscore == Sub(P_us, <<>>, item)
        item_nodoubledash == Sub(P_dd, <<>>, item_nounderscore)
        item_notilde      == Sub(P_tilde, <<"-">>, item_nodoubledash)
    IN  Sub(P_curlyUpper, <<>>, item_notilde)

\* the same with {.} in place of {[A-Z]}, as inside brackets
NormAchievedAnyCurly(item) ==
    LET item_nounderscore == Sub(P_us, <<>>, item)
        item_nodoubledash == Sub(P_dd, <<>>, item_nounderscore)
        item_notilde      == Sub(P_tilde, <<"-">>, item_nodoubledash)
    IN  Sub(P_curlyAny, <<>>, item_notilde)

AchievedAlts == <<P_us, P_dd, P_tilde, P_curlyUpper>>

\* int(c) raises a ValueError unless c is one digit
IsIntChar(c) == Len(c) = 1 /\ c[1] \in Digits

\* '{2}' in item or '{3}' in item or '{4}' in item
IsRepetition(item) ==
    Contains(item, <<"{","2","}">>) \/ Contains(item, <<"{","3","}">>) \/ Contains(item, <<"{","4","}">>)

\* the tokens of a repetition item written without the counter being raised
AchievedPutTokensKeepCounter(st, count, normalized_item, symbol_list) ==
    [PutMany(st, count, SplitWs(normalized_item), symbol_list) EXCEPT !.cti = st.cti]

\* the tokens of a repetition item: one token per word of normalized_item,
\* the counter raised once per token and lowered once
AchievedPutTokens(st, count, normalized_item, symbol_list) ==
    PutMany(st, count, SplitWs(normalized_item), symbol_list)

\* a_b{n}: es_Wise--N{2}, warum_er{2}
AchievedRepUsEnd(st, count, item) ==
    LET repetition_count == PyChar(item, Len(item) - 2)
        item_b           == PyUpTo(Split(item, <<"_">>)[2], -3)
        s1               == [st EXCEPT !.item_b = Bound(item_b)]
    IN  IF ~IsIntChar(repetition_count) THEN Raise(s1)
        ELSE LET item_nonumber ==
                     PyUpTo(item, -3)
                       \o Repeat(<<" ">> \o item_b, IntOfChar(repetition_count[1]) - 1)
                 symbol_list ==
                     <<<<"{">> \o repetition_count \o <<"}">>>>
                       \o FindAll(AchievedAlts, item_nonumber)
             IN  AchievedPutTokens(s1, count, NormAchieved(item_nonumber), symbol_list)

\* a{n}_b: kam{2}_nicht
AchievedRepUsMid(st, count, item) ==
    LET item_a           == Split(item, <<"_">>)[1]
        repetition_count == PyChar(item, Len(item_a) - 2)
        s1               == [st EXCEPT !.item_a = Bound(item_a)]
    IN  IF ~IsIntChar(repetition_count) THEN Raise(s1)
        ELSE LET full_item_nonumber == Sub(P_curlyDigit, <<>>, item)
                 symbol_list ==
                     <<<<"{">> \o repetition_count \o <<"}">>>>
                       \o FindAll(AchievedAlts, full_item_nonumber)
             IN  AchievedPutTokens(s1, count, NormAchieved(full_item_nonumber),
                                   symbol_list)

\* the word repeated n - 1 times, as in the branches with an underscore
AchievedRepPlainOneLess(st, count, item) ==
    LET repetition_count == PyChar(item, Len(item) - 2)
        item_nonumber    == PyUpTo(item, -3)
    IN  IF ~IsIntChar(repetition_count) THEN Raise(st)
        ELSE LET item_expanded ==
                     Repeat(<<" ">> \o item_nonumber, IntOfChar(repetition_count[1]) - 1)
                 symbol_list ==
                     <<<<"{">> \o repetition_count \o <<"}">>>>
                       \o FindAll(AchievedAlts, item_expanded)
             IN  AchievedPutTokens(st, count, NormAchieved(item_expanded), symbol_list)

\* w{n}, w{G}{n} and w{n}{G}: ha{4}, den{G}{2}, Pichu{2}{N}
AchievedRepPlain(st, count, item) ==
    LET tail2   == PyFrom(item, -2)
        atEnd   == Contains(tail2, <<"2">>) \/ Contains(tail2, <<"3">>) \/ Contains(tail2, <<"4">>)
        repetition_count ==
            IF atEnd THEN PyChar(item, Len(item) - 2) ELSE PySlice(item, -5, -4)
        item_nonumber ==
            IF atEnd THEN PyUpTo(item, -3) ELSE PyUpTo(item, -6) \o PyFrom(item, -3)
    IN  IF ~IsIntChar(repetition_count) THEN Raise(st)
        ELSE LET item_expanded ==
                     Repeat(<<" ">> \o item_nonumber, IntOfChar(repetition_count[1]))
                 symbol_list ==
                     <<<<"{">> \o repetition_count \o <<"}">>>>
                       \o FindAll(AchievedAlts, item_expanded)
             IN  AchievedPutTokens(st, count, NormAchieved(item_expanded), symbol_list)

\* an item with {2}, {3} or {4} and without "["
AchievedRepetition(st, count, item) ==
    IF Contains(item, <<"_">>) /\ EndsWith(item, <<"}">>)
    THEN AchievedRepUsEnd(st, count, item)
    ELSE IF Contains(item, <<"_">>)
    THEN AchievedRepUsMid(st, count, item)
    ELSE AchievedRepPlain(st, count, item)

\* symbol_list of a plain item: the symbols * _ -- ~ {[A-Z]} found in it
AchievedSymbolList(item) ==
    FindAll(<<P_star, P_us, P_dd, P_tilde, P_curlyUpper>>, item)

\* item after  item = re.sub(...)  when a symbol was found
AchievedItem(item) ==
    IF Len(AchievedSymbolList(item)) > 0 THEN NormAchieved(item) ELSE item

\* the token written when a symbol was found and neither § nor = is left
AchievedSymbols(st, count, raw) ==
    LET symbol_list == AchievedSymbolList(raw)
        item        == AchievedItem(raw)
    IN  IF Len(symbol_list) > 0 /\ ~Contains(item, <<"§">>) /\ ~Contains(item, <<"=">>)
        THEN PutOne(st, count, item, symbol_list)
        ELSE st

AchievedThreeAtEquals ==
    {<<"A","f","t","e","r","=","S","h","o","w","=","P","a","r","t","y">>, <<"5","=","s","t","e","r","n","e","=","h","o","t","e","l">>, <<"F","o","r","m","e","l","=","1","=","f","a","h","r","e","r">>, <<"5","=","g","ä","n","g","e","=","m","e","n","ü">>,
     <<"1","=","M","a","n","n","=","w","o","h","n","u","n","g">>, <<"R","h","e","i","n","=","N","e","c","k","a","r","=","L","ö","w","e","n">>, <<"4","=","z","i","m","m","e","r","=","w","o","h","n","u","n","g">>,
     <<"i","n","t","e","r","n","e","t","=","u","n","t","e","r","w","e","g","s","=","H","a","n","d","y","s">>, <<"g","u","t","e","=","n","a","c","h","t","=","g","e","s","c","h","i","c","h","t","e","f","o","r">>}

AchievedOneAtEquals == {<<"U","=","b","a","h","n","=","s","y","s","t","e","m","e","n">>, <<"G","ü","n","t","e","r","=","g","l","o","z","=","a","n","l","a","g","e">>}

\* § together with =, or more than one § or =: the listed literals and a§b§c
AchievedPgfAndEquals(st, count, item, symbol_list) ==
    IF item = <<"F","r","e","e","§","f","a","l","l","=","t","o","w","e","r">>
    THEN PutMany(st, count, <<<<"F","r","e","e">>, <<"f","a","l","l">>, <<"t","o","w","e","r">>>>,
                 symbol_list \o <<<<"§">>, <<"=">>>>)
    ELSE IF item = <<"R","h","e","i","n","=","N","e","c","k","a","r","=","l","ö","w","e","n">>
    THEN PutMany(st, count, <<<<"R","h","e","i","n">>, <<"N","e","c","k","a","r","l","ö","w","e","n">>>>,
                 symbol_list \o <<<<"=">>, <<"=">>>>)
    ELSE IF item = <<"A","B","F","O","J","A","=","A","l","l","e","r","§","B","e","s","t","e">>
    THEN PutMany(st, count, <<<<"A","B","F","O","J","A","=","A","l","l","e","r">>, <<"B","e","s","t","e">>>>, symbol_list \o <<<<"§">>>>)
    ELSE IF item = <<"H","a","n","d","b","a","l","l","=","D","a","m","e","n","§","N","a","t","i","o","n","a","l","m","a","n","n","s","c","h","a","f","t">>
    THEN PutMany(st, count, <<<<"H","a","n","d","b","a","l","l">>, <<"D","a","m","e","n">>, <<"N","a","t","i","o","n","a","l","m","a","n","n","s","c","h","a","f","t">>>>,
                 symbol_list \o <<<<"=">>, <<"§">>>>)
    ELSE IF item = <<"J","a","v","a","=","c","h","i","p","=","c","h","o","c","o","l","a","t","e","=","c","r","e","a","m">>
    THEN PutMany(st, count, <<<<"J","a","v","a">>, <<"c","h","i","p">>, <<"c","h","o","c","o","l","a","t","e">>, <<"c","r","e","a","m">>>>,
                 symbol_list \o <<<<"=">>, <<"=">>, <<"=">>>>)
    ELSE IF item = <<"e","n","t","§","l","a","n","g","§","z","u","§","h","a","n","g","e","l","n">>
    THEN PutMany(st, count, <<<<"e","n","t">>, <<"l","a","n","g">>, <<"z","u">>, <<"h","a","n","g","e","l","n">>>>,
                 symbol_list \o <<<<"§">>, <<"§">>, <<"§">>>>)
    ELSE IF item \in AchievedThreeAtEquals
    THEN PutMany(st, count, SubSeq(Split(item, <<"=">>), 1, 3),
                 symbol_list \o <<<<"=">>, <<"=">>>>)
    ELSE IF item \in AchievedOneAtEquals
    THEN PutOne(st, count, Sub(P_eq, <<>>, item), symbol_list \o <<<<"=">>, <<"=">>>>)
    ELSE IF Count(item, "§") = 2 /\ ~Contains(item, <<"=">>)
    THEN PutMany(st, count, SubSeq(Split(item, <<"§">>), 1, 3),
                 symbol_list \o <<<<"§">>, <<"§">>>>)
    ELSE st

AchievedEqualsEnd == {<<"A","n","g","e","l","=">>, <<"N","o","r","d","=">>, <<"A","B","O","J","A","=">>, <<"d","r","e","i","=">>}

\* one =: the listed literals, or two tokens
AchievedEquals(st, count, item, symbol_list) ==
    IF item = <<"=","s","u","r","f","e","r">>
    THEN PutOne(st, count, <<"s","u","r","f","e","r">>, symbol_list \o <<<<"=">>>>)
    ELSE IF item \in AchievedEqualsEnd
    THEN PutOne(st, count, PyUpTo(item, -1), <<<<"=">>>>)
    ELSE IF item = <<"=",")">>
    THEN st
    ELSE IF item = <<"=">>
    THEN PutOne(st, count, <<"f","e","h","l","e","n","d","e","s","w","o","r","t",":"," ","-">>, <<<<"=">>>>)
    ELSE LET parts == Split(item, <<"=">>)
         IN  PutMany(st, count, <<parts[1], parts[2]>>, symbol_list \o <<<<"=">>>>)

\* an item without "[" that is no repetition
AchievedPlain(st, count, raw) ==
    LET symbol_list == AchievedSymbolList(raw)
        item        == AchievedItem(raw)
        s1          == AchievedSymbols(st, count, raw)
    IN  IF \/ Contains(item, <<"§">>) /\ Contains(item, <<"=">>)
           \/ Count(item, "§") > 1
           \/ Count(item, "=") > 1
        THEN AchievedPgfAndEquals(s1, count, item, symbol_list)
        ELSE IF Contains(item, <<"§">>)
        THEN LET parts == Split(item, <<"§">>)
             IN  PutMany(s1, count, <<parts[1], parts[2]>>, symbol_list \o <<<<"§">>>>)
        ELSE IF Contains(item, <<"=">>)
        THEN AchievedEquals(s1, count, item, symbol_list)
        ELSE PutOneBare(s1, count, item)

\* the simple brackets resolved as create_tok_span_anno_target resolves them
AchievedSimpleBracketAsTarget(st, count, item) ==
    TargetSimpleBracket(st, count, item)

\* [§ b], [§ fehlendeswort], [a{2} §], [a §], [a b]
AchievedSimpleBracket(st, count, item) ==
    LET parts == SplitWs(item)
    IN  IF Len(parts) < 2 THEN Raise(st)
        ELSE LET first  == parts[1]
                 second == parts[2]
             IN  IF Contains(first, <<"§">>) \/ Contains(second, <<"f","e","h","l","e","n","d","e","s","w","o","r","t">>)
                 THEN IF Contains(second, <<"f","e","h","l","e","n","d","e","s","w","o","r","t">>)
                      THEN PutOne(st, count, <<"f","e","h","l","e","n","d","e","s","w","o","r","t",":","u","n","b","e","k","a","n","n","t">>, <<item>>)
                      ELSE PutOne(st, count, <<"f","e","h","l","e","n","d","e","s","w","o","r","t",":"," ">> \o PyUpTo(second, -1),
                                  <<item>>)
                 ELSE IF Contains(item, <<"{","2","}">>)
                 THEN LET item_normalized == PySlice(first, 1, -3)
                      IN  PutMany(st, count, <<item_normalized, item_normalized>>,
                                  <<item>>)
                 ELSE LET first_item == PyFrom(first, 1)
                          symbol_list ==
                              <<item>> \o FindAll(<<P_us, P_dd, P_tilde, P_curlyAny>>,
                                                  first_item)
                      IN  PutOne(st, count, NormAchievedAnyCurly(first_item), symbol_list)

\* the words of an item without §: of every part with a blank the first
\* word without its "[", every other part as it is
AchievedFirstWords(item) ==
    LET parts == Split(item, <<"_">>)
    IN  [k \in 1..Len(parts) |->
            IF Contains(parts[k], <<" ">>)
            THEN PyFrom(SplitWs(parts[k])[1], 1)
            ELSE parts[k]]

\* x§[a b]: the two listed literals set item_a and item_b; any other item
\* reads what an earlier round left in them
AchievedPgfBracket(st, count, item) ==
    LET s1 == IF item = <<"R","e","i","n","§","[","§"," ","k","o","m","m","t","]">>
              THEN [st EXCEPT !.item_a = Bound(<<"R","e","i","n">>),
                              !.item_b = Bound(<<"f","e","h","l","e","n","d","e","s","w","o","r","t",":","k","o","m","m","t">>)]
              ELSE IF item = <<"C","r","i","m","i","n","a","l","§","[","P","o","l","i","z","e","i"," ","p","o","l","i","z","i","s","t","]">>
              THEN [st EXCEPT !.item_a = Bound(<<"C","r","i","m","i","n","a","l">>),
                              !.item_b = Bound(<<"P","o","l","i","z","e","i">>)]
              ELSE st
    IN  IF ~s1.item_a.bound \/ ~s1.item_b.bound THEN Raise(s1)
        ELSE PutMany(s1, count, <<s1.item_a.val, s1.item_b.val>>, <<item>>)

\* every other item with "["
AchievedComplexBracket(st, count, item) ==
    IF ~Contains(item, <<"§">>)
    THEN IF \E k \in 1..Len(Split(item, <<"_">>)) :
                /\ Contains(Split(item, <<"_">>)[k], <<" ">>)
                /\ SplitWs(Split(item, <<"_">>)[k]) = <<>>
         THEN Raise(st)
         ELSE PutOne(st, count, NormAchievedAnyCurly(Join(AchievedFirstWords(item))),
                     <<item>>)
    ELSE IF Contains(item, <<"§","[">>)
    THEN AchievedPgfBracket(st, count, item)
    ELSE LET item_tmp == IF Contains(item, <<"[","§">>)
                         THEN SubBracketPgfGreedy(item)
                         ELSE Sub(P_spPgfRbr, <<>>, Sub(P_lbr, <<>>, item))
         IN  PutOne(st, count, Sub(P_us, <<>>, item_tmp), <<item>>)

\* one round of the loop of create_tok_span_anno_achieved
AchievedItemStep(st, count, item) ==
    IF ~Contains(item, <<"[">>)
    THEN IF item = <<"=","{","N","}">> THEN PutOne(st, count, <<"=">>, <<<<"{","N","}">>>>)
         ELSE IF IsRepetition(item) THEN AchievedRepetition(st, count, item)
         ELSE AchievedPlain(st, count, item)
    ELSE IF IsSimpleBracket(item) THEN AchievedSimpleBracket(st, count, item)
    ELSE AchievedComplexBracket(st, count, item)

----------------------------------------------------------------------------
(* tokenize                                                                *)

RECURSIVE Flatten(_, _, _)
\* the strings parts[lo], ..., parts[hi] one after the other
Flatten(parts, lo, hi) ==
    IF lo > hi THEN <<>>
    ELSE IF lo = hi THEN parts[lo]
    ELSE LET mid == (lo + hi) \div 2
         IN  Flatten(parts, lo, mid) \o Flatten(parts, mid + 1, hi)

\* re.sub of a pattern that is one literal string.  No literal of tokenize
\* overlaps itself, so every occurrence is one that re.sub replaces.
SubLit(lit, repl, s) ==
    LET starts == {i \in 1..Len(s) : OccursAt(s, lit, i)}
    IN  IF starts = {} THEN s
        ELSE Flatten([i \in 1..Len(s) |->
                        IF i \in starts THEN repl
                        ELSE IF \E p \in starts : p < i /\ i < p + Len(lit) THEN <<>>
                        ELSE <<s[i]>>],
                     1, Len(s))

\* the place of the first character after place i that is not a blank,
\* Len(s) + 1 when there is none
AfterBlanks(s, i) ==
    CHOOSE j \in (i + 1)..(Len(s) + 1) :
        /\ j = Len(s) + 1 \/ s[j] # " "
        /\ \A k \in (i + 1)..(j - 1) : s[k] = " "

\* re.sub of the pattern  c1 *c2 : c1, any number of blanks, c2
SubGap(c1, c2, repl, s) ==
    LET starts == {i \in 1..Len(s) :
                      /\ s[i] = c1
                      /\ AfterBlanks(s, i) <= Len(s)
                      /\ s[AfterBlanks(s, i)] = c2}
    IN  IF starts = {} THEN s
        ELSE Flatten([i \in 1..Len(s) |->
                        IF i \in starts THEN repl
                        ELSE IF \E p \in starts : p < i /\ i <= AfterBlanks(s, p) THEN <<>>
                        ELSE <<s[i]>>],
                     1, Len(s))

\* punctuation attached to a word is set off with blanks
PadPunctuation(text) ==
    LET t1 == SubLit(<<".">>, <<" ","."," ">>, text)
        t2 == SubLit(<<",">>, <<" ",","," ">>, t1)
        t3 == SubLit(<<":">>, <<" ",":"," ">>, t2)
        t4 == SubLit(<<"?">>, <<" ","?"," ">>, t3)
        t5 == SubLit(<<"!">>, <<" ","!"," ">>, t4)
        t6 == SubLit(<<"(">>, <<"("," ">>, t5)
    IN  SubLit(<<")">>, <<" ",")">>, t6)

\* a mark at the left side of a bracket is joined back to the bracket
GlueLeft(text) ==
    LET t1 == SubGap("[", ".", <<"[","."," ">>, text)
        t2 == SubGap("[", ",", <<"[",","," ">>, t1)
        t3 == SubGap("[", ":", <<"[",":"," ">>, t2)
        t4 == SubGap("[", "?", <<"[","?"," ">>, t3)
    IN  SubGap("[", "!", <<"[","!"," ">>, t4)

\* a mark at the right side of a bracket is joined back to the bracket
GlueRight(text) ==
    LET t1 == SubGap(".", "]", <<" ",".","]">>, text)
        t2 == SubGap(",", "]", <<" ",",","]">>, t1)
        t3 == SubGap(":", "]", <<" ",":","]">>, t2)
        t4 == SubGap("?", "]", <<" ","?","]">>, t3)
    IN  SubGap("!", "]", <<" ","!","]">>, t4)

\* the character reference of the quotation mark
Unquote(text) == SubLit(<<"&","#","3","4",";">>, <<" ", "\"", " ">>, text)

\* the listed occurrences that are joined back
Rejoin(text) ==
    LET t1  == SubLit(<<","," ","_">>, <<",","_">>, text)
        t2  == SubLit(<<"."," ","_">>, <<".","_">>, t1)
        t3  == SubLit(<<"\"", " ", "_">>, <<"\"", "_">>, t2)
        t4  == SubLit(<<":"," ","_">>, <<":","_">>, t3)
        t5  == SubLit(<<"_"," ",",">>, <<"_",",">>, t4)
        t6  == SubLit(<<".", "_", " ", "\"">>, <<".", "_", "\"">>, t5)
        t7  == SubLit(<<":", "_", " ", "\"">>, <<":", "_", "\"">>, t6)
        t8  == SubLit(<<"_","D","a","n","n">>, <<"D","a","n","n">>, t7)
        t9  == SubLit(<<",","_"," ","D","o","r","t">>, <<",","_","D","o","r","t">>, t8)
    IN  SubLit(<<".","_"," ","T","i","m">>, <<".","_","T","i","m">>, t9)

\* the listed occurrences of a word and a bracket that are set apart
SetApart(text) ==
    LET t1 == SubLit(<<"/","[">>, <<" ","/"," ","[">>, text)
        t2 == SubLit(<<"E","n","t","e","[">>, <<"E","n","t","e"," ","[">>, t1)
        t3 == SubLit(<<"b","e","i","[">>, <<"b","e","i"," ","[">>, t2)
        t4 == SubLit(<<"d","e","n","n","[">>, <<"d","e","n","n"," ","[">>, t3)
        t5 == SubLit(<<"d","u","[">>, <<"d","u"," ","[">>, t4)
        t6 == SubLit(<<"w","e","g","l","a","u","f","e","n","[">>, <<"w","e","g","l","a","u","f","e","n"," ","[">>, t5)
        t7 == SubLit(<<"w","ü","r","d","e","[">>, <<"w","ü","r","d","e"," ","[">>, t6)
        t8 == SubLit(<<"f","e","r","n","[","s","e","h","n"," ","§","]">>, <<"f","e","r","n"," ","[","s","e","h","n"," ","§","]">>, t7)
        t9 == SubLit(<<"e","i","n","[",",">>, <<"e","i","n"," ","[",",">>, t8)
    IN  SubLit(<<"[","§","/","]">>, <<"[","§"," ","/","]">>, t9)

\* the joining loop without its second joining
MergeAtOnce(tokenized, i) ==
    IF ~Contains(tokenized[i + 1], <<"[">>)
    THEN [list |-> tokenized, err |-> FALSE]
    ELSE IF i + 2 > Len(tokenized)
    THEN [list |-> tokenized, err |-> TRUE]
    ELSE [list |-> [tokenized EXCEPT ![i + 1] = @ \o <<" ">> \o tokenized[i + 2]],
          err |-> FALSE]

\* one round of the joining loop at index i (from 0); err is the IndexError
\* of tokenized[i + 1] or tokenized[i + 2] past the end of the list
MergeAt(tokenized, i) ==
    IF ~Contains(tokenized[i + 1], <<"[">>)
    THEN [list |-> tokenized, err |-> FALSE]
    ELSE IF i + 2 > Len(tokenized)
    THEN [list |-> tokenized, err |-> TRUE]
    ELSE LET joined == tokenized[i + 1] \o <<" ">> \o tokenized[i + 2]
             once   == [tokenized EXCEPT ![i + 1] = joined]
         IN  IF ~Contains(tokenized[i + 2], <<"[">>)
             THEN [list |-> once, err |-> FALSE]
             ELSE IF i + 3 > Len(tokenized)
             THEN [list |-> once, err |-> TRUE]
             ELSE [list |-> [once EXCEPT ![i + 1] = joined \o <<" ">> \o tokenized[i + 3]],
                   err |-> FALSE]

\* i.count("[") != i.count("]")
Unbalanced(e) == Count(e, "[") # Count(e, "]")

\* list.remove(e): the first element equal to e is taken out
ListRemove(list, e) ==
    LET p == CHOOSE x \in 1..Len(list) :
                 list[x] = e /\ \A y \in 1..(x - 1) : list[y] # e
    IN  SubSeq(list, 1, p - 1) \o SubSeq(list, p + 1, Len(list))

\* a removing loop that takes out only the elements with more "[" than "]"
DropAtOpenOnly(tokenized, i) ==
    IF Count(tokenized[i + 1], "[") > Count(tokenized[i + 1], "]")
    THEN ListRemove(tokenized, tokenized[i + 1])
    ELSE tokenized

\* one round of a removing loop: the list iterator stands at index i
DropAt(tokenized, i) ==
    IF Unbalanced(tokenized[i + 1]) THEN ListRemove(tokenized, tokenized[i + 1])
    ELSE tokenized

----------------------------------------------------------------------------
(* The inputs: lexical tokens as tokenize returns them (never empty: they  *)
(* come from str.split()), taken from the examples in the comments of      *)
(* target.py and from items of the same shapes.                            *)

Items ==
    {<<"W","o","l","f">>, <<"u","n","d","{","2","}">>, <<"i","n","_","d","e","r">>, <<"[","s","a","h","e","n"," ","§","]">>, <<"[","§"," ","s","i","e","]">>, <<"s","i","§","c","h">>,
     <<"{","N","}">>, <<"*","*","*">>, <<"=",")">>, <<"{","2","}">>, <<"R","e","i","n","§","[","§"," ","k","o","m","m","t","]">>, <<"r","a","u","s","§","[","§"," ","g","e","h","t","]">>,
     <<"a","u","f","[","§"," ","m","a","c","h","e","n","]">>, <<"k","a","m","{","2","}","_","n","i","c","h","t">>, <<"w","a","r","u","m","_","e","r","{","2","}">>, <<"i","~","P","h","o","n","e","{","N","}">>,
     <<"N","u","l","l","~","K","a","l","o","r","i","e","n">>, <<"H","a","u","s","=","t","ü","r">>, <<"w","i","s","-","-","s","e","n">>, <<"S","e","e","§","u","f","e","r","=","w","e","g">>,
     <<"H","a","s","t","_","d","u","_","e","s","{","G","}">>, <<"[","s","e","i","n","e"," ","i","h","r","e","]">>, <<"U","n","d","_","[","a","n"," ","d","a","n","n","]">>, <<"[","z","u"," ","n","a","c","h","]","_","H","a","u","s","e">>,
     <<"T","a","g","_","[","m","a","c","h","e","n"," ","§","]">>, <<"a","l","t","_","a","u","s","[","§"," ","s","a","h","e","n","]">>, <<"*","e","*">>, <<"d","e","n","{","G","}","{","2","}">>, <<"h","a","{","4","}">>,
     <<"e","s","_","w","i","s","-","-","s","e","n">>, <<"*","e","*","{","2","}">>, <<"T","e","c","h","n","i","k","~","s","a","c","h","e","n">>}

CoreItems ==
    {<<"W","o","l","f">>, <<"[","s","a","h","e","n"," ","§","]">>, <<"a","u","f","[","§"," ","m","a","c","h","e","n","]">>, <<"R","e","i","n","§","[","§"," ","k","o","m","m","t","]">>,
     <<"r","a","u","s","§","[","§"," ","g","e","h","t","]">>, <<"{","2","}">>, <<"[","§"," ","f","e","h","l","e","n","d","e","s","w","o","r","t","]">>,
     <<"[","i"," ","i","n","]","_","[","e","m"," ","d","e","n","]">>}

\* the example of the module docstring and of create_tok_span_anno_target
Scenario ==
    <<<<"E","r">>, <<"w","a","r">>, <<"g","l","ü","c","k","l","i","c","h">>, <<"u","n","d","{","2","}">>, <<"w","a","r">>, <<"i","n","_","d","e","r">>, <<"B","ü","c","h","e","r","e","i">>>>

Sentences == {Scenario}

MaxLen == 2

MaxCoreLen == 3

SeqsUpTo(S, n) == UNION {[1..k -> S] : k \in 0..n}

TokenLists == SeqsUpTo(Items, MaxLen) \cup SeqsUpTo(CoreItems, MaxCoreLen) \cup Sentences

Policies == {"target", "achieved"}

\* the lists of the calls that follow one another
CallItems == {<<"W","o","l","f">>, <<"R","e","i","n","§","[","§"," ","k","o","m","m","t","]">>, <<"r","a","u","s","§","[","§"," ","g","e","h","t","]">>}

MaxCallLen == 2

CallLists == SeqsUpTo(CallItems, MaxCallLen)

MaxCalls == 3

\* the pieces the texts are assembled from: words, a word with a full
\* stop, bracket groups alone and joined with _, and pieces of groups
Chunks ==
    {<<"W","o","l","f">>, <<"k","a","m",".">>, <<"[","e","r"," ","s","i","e","]">>, <<"[","§"," ",".","]">>, <<"i","n","_","[","e","r"," ","s","i","e","]">>, <<"[","e","r"," ","s","i","e","]","_","d","a">>,
     <<"[","i"," ","i","n","]","_","[","e","m"," ","d","e","n","]">>, <<"W","i","e","_","[","s"," ","h","e","i","ß","t","]","_","d","e","r">>, <<"[","e","r"," ","s","i","e","]","_","D","a","n","n">>,
     <<"s","i","e","]">>, <<"[","e","r">>, <<"[","x","]">>}

MaxChunks == 3

RECURSIVE JoinBlank(_)
JoinBlank(parts) ==
    IF parts = <<>> THEN <<>>
    ELSE IF Len(parts) = 1 THEN parts[1]
    ELSE parts[1] \o <<" ">> \o JoinBlank(Tail(parts))

Texts == {JoinBlank(cs) : cs \in SeqsUpTo(Chunks, MaxChunks)}

VARIABLES
    policy,                 \* which of the two functions is called
    token_list,             \* its argument
    count,                  \* enumerate's index of the next item
    tok, span, anno,        \* the three dictionaries
    count_tok_insertions,
    item_a, item_b,         \* locals that outlive a round of the loop
    pc,                     \* "loop", "returned" or "raised"; "idle": no call
    sentence,               \* the argument of tokenize
    text,                   \* its local text, the argument rewritten
    tokenized,              \* its list
    idx,                    \* the index of its running loop
    tpc,                    \* "pad", "glue", "rejoin", "apart", "split",
                            \* "merge", "drop1", "drop2", "returned",
                            \* "raised"; "idle": no call
    calls,                  \* the number of calls of the resolvers so far
    first_call              \* the outcome of the first of them

vars ==
    <<policy, token_list, count, tok, span, anno, count_tok_insertions,
      item_a, item_b, pc, sentence, text, tokenized, idx, tpc, calls,
      first_call>>

resolvervars ==
    <<policy, token_list, count, tok, span, anno, count_tok_insertions,
      item_a, item_b, pc>>

tokenizevars == <<sentence, text, tokenized, idx, tpc>>

callvars == <<calls, first_call>>

Locals ==
    [tok |-> tok, span |-> span, anno |-> anno, cti |-> count_tok_insertions,
     item_a |-> item_a, item_b |-> item_b, err |-> FALSE]

\* no call of tokenize is under way
TokenizeIdle ==
    sentence = <<>> /\ text = <<>> /\ tokenized = <<>> /\ idx = 0 /\ tpc = "idle"

NoCall ==
    [set |-> FALSE, policy |-> "target", list |-> <<>>, pc |-> "loop",
     tok |-> <<>>, span |-> <<>>, anno |-> <<>>]

\* the locals of a call that starts
Enter ==
    /\ count = 0
    /\ tok = Locals0.tok
    /\ span = Locals0.span
    /\ anno = Locals0.anno
    /\ count_tok_insertions = Locals0.cti
    /\ item_a = Locals0.item_a
    /\ item_b = Locals0.item_b
    /\ pc = "loop"

Init ==
    /\ policy \in Policies
    /\ token_list \in TokenLists
    /\ Enter
    /\ TokenizeIdle
    /\ calls = 1
    /\ first_call = NoCall

\* the locals after a round, or the exception leaving the call
Round(r) ==
    IF r.err
    THEN /\ pc' = "raised"
         /\ UNCHANGED <<count, tok, span, anno, count_tok_insertions, item_a, item_b>>
    ELSE /\ pc' = "loop"
         /\ count' = count + 1
         /\ tok' = r.tok
         /\ span' = r.span
         /\ anno' = r.anno
         /\ count_tok_insertions' = r.cti
         /\ item_a' = r.item_a
         /\ item_b' = r.item_b

TargetRound ==
    /\ pc = "loop"
    /\ policy = "target"
    /\ count < Len(token_list)
    /\ Round(TargetItem(Locals, count, token_list[count + 1]))
    /\ UNCHANGED <<policy, token_list>>
    /\ UNCHANGED <<tokenizevars, callvars>>

AchievedRound ==
    /\ pc = "loop"
    /\ policy = "achieved"
    /\ count < Len(token_list)
    /\ Round(AchievedItemStep(Locals, count, token_list[count + 1]))
    /\ UNCHANGED <<policy, token_list>>
    /\ UNCHANGED <<tokenizevars, callvars>>

Return ==
    /\ pc = "loop"
    /\ count = Len(token_list)
    /\ pc' = "returned"
    /\ UNCHANGED <<policy, token_list, count, tok, span, anno,
                   count_tok_insertions, item_a, item_b>>
    /\ UNCHANGED <<tokenizevars, callvars>>

Next == TargetRound \/ AchievedRound \/ Return

Spec == Init /\ [][Next]_vars

----------------------------------------------------------------------------
(* Calls that follow one another: every call has locals of its own         *)

\* locals of a new call that keep item_a and item_b of the call before
NewFrameKeepItems(st) ==
    [Locals0 EXCEPT !.item_a = st.item_a, !.item_b = st.item_b]

\* the locals of a new call, whatever the call before it left in st
NewFrame(st) == Locals0

\* what a call that is over has given back
Outcome ==
    [set |-> TRUE, policy |-> policy, list |-> token_list, pc |-> pc,
     tok |-> IF pc = "returned" THEN tok ELSE <<>>,
     span |-> IF pc = "returned" THEN span ELSE <<>>,
     anno |-> IF pc = "returned" THEN anno ELSE <<>>]

\* the caller calls one of the two functions again
Call ==
    /\ pc \in {"returned", "raised"}
    /\ calls < MaxCalls
    /\ calls' = calls + 1
    /\ first_call' = IF first_call.set THEN first_call ELSE Outcome
    /\ policy' \in Policies
    /\ token_list' \in CallLists
    /\ count' = 0
    /\ tok' = NewFrame(Locals).tok
    /\ span' = NewFrame(Locals).span
    /\ anno' = NewFrame(Locals).anno
    /\ count_tok_insertions' = NewFrame(Locals).cti
    /\ item_a' = NewFrame(Locals).item_a
    /\ item_b' = NewFrame(Locals).item_b
    /\ pc' = "loop"
    /\ UNCHANGED tokenizevars

CallInit ==
    /\ policy \in Policies
    /\ token_list \in CallLists
    /\ Enter
    /\ TokenizeIdle
    /\ calls = 1
    /\ first_call = NoCall

CallNext == TargetRound \/ AchievedRound \/ Return \/ Call

CallSpec == CallInit /\ [][CallNext]_vars

----------------------------------------------------------------------------
(* A call of tokenize                                                      *)

ResolverIdle ==
    /\ policy = "target"
    /\ token_list = <<>>
    /\ count = 0
    /\ tok = <<>>
    /\ span = <<>>
    /\ anno = <<>>
    /\ count_tok_insertions = 0
    /\ item_a = Locals0.item_a
    /\ item_b = Locals0.item_b
    /\ pc = "idle"
    /\ calls = 0
    /\ first_call = NoCall

TokInit ==
    /\ sentence \in Texts
    /\ text = sentence
    /\ tokenized = <<>>
    /\ idx = 0
    /\ tpc = "pad"
    /\ ResolverIdle

\* the marks . , : ? ! ( ) are set off with blanks
TokPad ==
    /\ tpc = "pad"
    /\ text' = PadPunctuation(text)
    /\ tpc' = "glue"
    /\ UNCHANGED <<sentence, tokenized, idx, resolvervars, callvars>>

\* the marks next to a bracket are joined back to it
TokGlue ==
    /\ tpc = "glue"
    /\ text' = GlueRight(GlueLeft(text))
    /\ tpc' = "rejoin"
    /\ UNCHANGED <<sentence, tokenized, idx, resolvervars, callvars>>

\* the quotation mark, and the listed occurrences that are joined back
TokRejoin ==
    /\ tpc = "rejoin"
    /\ text' = Rejoin(Unquote(text))
    /\ tpc' = "apart"
    /\ UNCHANGED <<sentence, tokenized, idx, resolvervars, callvars>>

\* the listed occurrences that are set apart
TokSetApart ==
    /\ tpc = "apart"
    /\ text' = SetApart(text)
    /\ tpc' = "split"
    /\ UNCHANGED <<sentence, tokenized, idx, resolvervars, callvars>>

\* tokenized = text.split()
TokSplit ==
    /\ tpc = "split"
    /\ tokenized' = SplitWs(text)
    /\ idx' = 0
    /\ tpc' = "merge"
    /\ UNCHANGED <<sentence, text, resolvervars, callvars>>

\* one round of  for i in range(len(tokenized))
TokMerge ==
    /\ tpc = "merge"
    /\ idx < Len(tokenized)
    /\ LET r == MergeAt(tokenized, idx)
       IN  /\ tokenized' = r.list
           /\ idx' = IF r.err THEN idx ELSE idx + 1
           /\ tpc' = IF r.err THEN "raised" ELSE "merge"
    /\ UNCHANGED <<sentence, text, resolvervars, callvars>>

\* one round of one of the two loops  for i in tokenized
TokDrop ==
    /\ tpc \in {"drop1", "drop2"}
    /\ idx < Len(tokenized)
    /\ tokenized' = DropAt(tokenized, idx)
    /\ idx' = idx + 1
    /\ UNCHANGED <<sentence, text, tpc, resolvervars, callvars>>

\* a loop is over and the next one starts
TokNextLoop ==
    /\ tpc \in {"merge", "drop1"}
    /\ idx >= Len(tokenized)
    /\ tpc' = IF tpc = "merge" THEN "drop1" ELSE "drop2"
    /\ idx' = 0
    /\ UNCHANGED <<sentence, text, tokenized, resolvervars, callvars>>

TokReturn ==
    /\ tpc = "drop2"
    /\ idx >= Len(tokenized)
    /\ tpc' = "returned"
    /\ UNCHANGED <<sentence, text, tokenized, idx, resolvervars, callvars>>

TokNext ==
    \/ TokPad \/ TokGlue \/ TokRejoin \/ TokSetApart \/ TokSplit
    \/ TokMerge \/ TokDrop \/ TokNextLoop \/ TokReturn

TokSpec == TokInit /\ [][TokNext]_vars

----------------------------------------------------------------------------
(* What the checked properties speak about                                 *)

\* the numeric ids of the keys of the Token map
TokIds == {key[2] : key \in DictKeys(tok)}

\* position i (from 0) has a span, has an annotation
HasSpan(i) == DictHas(span, <<"sSpan", i>>)

HasAnno(i) == DictHas(anno, <<"sSpan", i>>)

\* the token ids the span at position i refers to, in the order of its list
SpanIds(i) ==
    LET v == DictGet(span, <<"sSpan", i>>)
    IN  [k \in 1..Len(v.toks) |-> v.toks[k][2]]

\* the item at position i (from 0) and whether its round is over
ItemAt(i) == token_list[i + 1]

Done(i) == i < count

Positions == 0..(Len(token_list) - 1)

\* the sigils of an item, in the order in which they stand in it
Sigils(item) ==
    FindAll(<<P_star, P_pgf, P_dd, P_eq, P_curlyAny, P_tilde, P_us>>, item)

HasBracket(item) == Contains(item, <<"[">>) \/ Contains(item, <<"]">>)

\* a round of the loop has just ended without an exception
RoundDone == pc = "loop" /\ pc' = "loop" /\ count' = count + 1

\* the ids of the tokens a round has written
Written == {key[2] : key \in DictKeys(tok')} \ TokIds

----------------------------------------------------------------------------
(* C1: for every token list and both policies the numeric ids of the keys  *)
(* of the returned Token map are exactly 0, 1, ..., k-1 for k tokens: they *)
(* start at 0 and have no gap and no duplicate.                            *)
C1_TokenIdsContiguous ==
    pc = "returned" =>
        /\ TokIds = 0..(Len(tok) - 1)
        /\ Cardinality(TokIds) = Len(tok)

(* C2: under both policies the number of Span entries is the number of     *)
(* lexical items minus the number of items that emitted no token: a round  *)
(* adds one span exactly when it wrote at least one token, and no span     *)
(* otherwise.                                                              *)
C2_SpanIffTokenEmitted ==
    [][RoundDone =>
         /\ Len(span') = Len(span) + (IF Written # {} THEN 1 ELSE 0)
         /\ (Written # {} <=> DictHas(span', <<"sSpan", count>>))]_vars

C4_AnnoKeysAreSpanKeys == DictKeys(anno) \subseteq DictKeys(span)

\* a returned call with annotated and unannotated spans
C4_Witness ==
    /\ pc = "returned"
    /\ policy = "achieved"
    /\ Len(anno) >= 2
    /\ Len(span) > Len(anno)

\* the decomposition of the item at position i: whether it has a span,
\* whether the span is a list, the strings of its tokens in order, and its
\* annotation list
Decomposition(t, s, a, i) ==
    LET has == DictHas(s, <<"sSpan", i>>)
        v   == DictGet(s, <<"sSpan", i>>)
    IN  [span  |-> has,
         list  |-> has /\ v.list,
         texts |-> IF has THEN [k \in 1..Len(v.toks) |-> DictGet(t, v.toks[k])] ELSE <<>>,
         anno  |-> IF DictHas(a, <<"sSpan", i>>)
                   THEN <<DictGet(a, <<"sSpan", i>>)>> ELSE <<>>]

\* the item resolved as the only item of a list
Alone(item) ==
    IF policy = "target" THEN TargetItem(Locals0, 0, item)
    ELSE AchievedItemStep(Locals0, 0, item)

(* C5: locality.  For a fixed policy the decomposition of an item (number  *)
(* of tokens, their strings in order, its annotation list) is the same at  *)
(* every position of every list: it is the one the item has as the only    *)
(* item of a list, and the call raises at an item only if it raises on     *)
(* that item alone.                                                        *)
C5_Locality ==
    \A i \in Positions :
        /\ (Done(i) /\ pc # "raised") =>
              /\ ~Alone(ItemAt(i)).err
              /\ Decomposition(tok, span, anno, i)
                   = Decomposition(Alone(ItemAt(i)).tok, Alone(ItemAt(i)).span,
                                   Alone(ItemAt(i)).anno, 0)
        /\ (pc = "raised" /\ i = count) => Alone(ItemAt(i)).err

\* a dictionary as the set of its entries
Entries(d) == {d[i] : i \in 1..Len(d)}

IsDeletion(item) ==
    /\ IsSimpleBracket(item)
    /\ Len(SplitWs(item)) = 2
    /\ SplitWs(item)[2] = <<"§","]">>

\* the greatest token id of the spans before position d, -1 without one
LastIdBefore(d) ==
    LET ids == UNION {{SpanIds(i)[k] : k \in 1..Len(SpanIds(i))} :
                        i \in {j \in 0..(d - 1) : HasSpan(j)}}
    IN  IF ids = {} THEN -1 ELSE CHOOSE x \in ids : \A y \in ids : y <= x

(* C7: deletion law (Target).  An item "[a §]" at any position adds no     *)
(* entry to the Token, Span or Annotation map, and the first token id of   *)
(* the next item that emits a token is one greater than the last token id  *)
(* emitted before the deletion (0 if there is none).                       *)
C7_DeletionLaw ==
    policy = "target" =>
        \A d \in Positions :
            (Done(d) /\ IsDeletion(ItemAt(d))) =>
                /\ ~HasSpan(d)
                /\ ~HasAnno(d)
                /\ \A key \in DictKeys(tok) :
                       \E i \in Positions : HasSpan(i) /\ key \in
                            {DictGet(span, <<"sSpan", i>>).toks[k] :
                                k \in 1..Len(DictGet(span, <<"sSpan", i>>).toks)}
                /\ \A j \in Positions :
                       ( /\ j > d
                         /\ HasSpan(j)
                         /\ \A m \in (d + 1)..(j - 1) : ~HasSpan(m) )
                       => SpanIds(j)[1] = LastIdBefore(d) + 1

\* an item without a bracket and without a sigil
IsPassthrough(item) == ~HasBracket(item) /\ Sigils(item) = <<>>

(* C8: plain passthrough.  Under both policies an item without bracket and *)
(* without sigil resolves to one token equal to the item, one span at its  *)
(* position that refers to that token id alone, and no annotation.         *)
C8_PlainPassthrough ==
    \A i \in Positions :
        (Done(i) /\ IsPassthrough(ItemAt(i))) =>
            /\ HasSpan(i)
            /\ ~DictGet(span, <<"sSpan", i>>).list
            /\ Len(SpanIds(i)) = 1
            /\ DictHas(tok, <<"tok", SpanIds(i)[1]>>)
            /\ DictGet(tok, <<"tok", SpanIds(i)[1]>>) = ItemAt(i)
            /\ Cardinality({j \in Positions : HasSpan(j) /\
                   \E k \in 1..Len(SpanIds(j)) : SpanIds(j)[k] = SpanIds(i)[1]}) = 1
            /\ ~HasAnno(i)

\* "Wolf" resolved under each policy after an item that shifted the ids
C8_Witness ==
    /\ pc = "returned"
    /\ Len(token_list) = 2
    /\ IsPassthrough(ItemAt(1))
    /\ HasSpan(1)
    /\ SpanIds(1)[1] # 1

\* w{n}: a word without sigil and bracket followed by {2}, {3} or {4}
IsPlainRepetition(item) ==
    /\ Len(item) > 3
    /\ PyFrom(item, -3) \in {<<"{","2","}">>, <<"{","3","}">>, <<"{","4","}">>}
    /\ IsPassthrough(PyUpTo(item, -3))

RepWord(item) == PyUpTo(item, -3)

RepCount(item) == IntOfChar(item[Len(item) - 1])

(* C9: repetition expansion (Achieved).  A plain item w{n}, n in 2..4,     *)
(* with no underscore and no other sigil resolves to n tokens equal to w   *)
(* with n consecutive ids, one span listing these ids in increasing order, *)
(* the annotation ["{n}"], and the counter grows by n - 1.                 *)
C9_RepetitionExpansion ==
    [][(RoundDone /\ policy = "achieved" /\ IsPlainRepetition(ItemAt(count))) =>
         LET n     == RepCount(ItemAt(count))
             first == count + count_tok_insertions
         IN  /\ Written = first..(first + n - 1)
             /\ Len(tok') = Len(tok) + n
             /\ \A id \in Written : DictGet(tok', <<"tok", id>>) = RepWord(ItemAt(count))
             /\ DictHas(span', <<"sSpan", count>>)
             /\ DictGet(span', <<"sSpan", count>>)
                  = [list |-> TRUE, toks |-> [k \in 1..n |-> <<"tok", first + k - 1>>]]
             /\ DictHas(anno', <<"sSpan", count>>)
             /\ DictGet(anno', <<"sSpan", count>>) = <<PyFrom(ItemAt(count), -3)>>
             /\ count_tok_insertions' = count_tok_insertions + n - 1]_vars

\* "ha{4}" resolved under Achieved
C9_Witness ==
    /\ policy = "achieved"
    /\ pc = "loop"
    /\ count = 2
    /\ IsPlainRepetition(ItemAt(1))
    /\ RepCount(ItemAt(1)) = 4
    /\ HasSpan(1)
    /\ Len(SpanIds(1)) = 4

\* a plain item with a sigil among * § -- = {X}, no underscore, no tilde
IsStripItem(item) ==
    /\ ~HasBracket(item)
    /\ FindAll(<<P_star, P_pgf, P_dd, P_eq, P_curlyAny>>, item) # <<>>
    /\ ~Contains(item, <<"_">>)
    /\ ~Contains(item, <<"~">>)

\* the item with *, §, -- and {X} deleted and = replaced by a hyphen
Stripped(item) ==
    Sub(P_eq, <<"-">>, Sub(P_curlyAny, <<>>, Sub(P_dd, <<>>, Sub(P_pgf, <<>>,
        Sub(P_star, <<>>, item)))))

\* what the claim says of a round on item at position count
StripRound(item) ==
    LET key == <<"tok", count + count_tok_insertions>>
    IN  /\ Written = {count + count_tok_insertions}
        /\ Len(tok') = Len(tok) + 1
        /\ DictGet(tok', key) = Stripped(item)
        /\ DictHas(span', <<"sSpan", count>>)
        /\ DictGet(span', <<"sSpan", count>>) = [list |-> FALSE, toks |-> <<key>>]
        /\ DictHas(anno', <<"sSpan", count>>)
        /\ DictGet(anno', <<"sSpan", count>>)
             = FindAll(<<P_star, P_pgf, P_dd, P_eq, P_curlyAny>>, item)
        /\ count_tok_insertions' = count_tok_insertions

(* C10 as stated: symbol stripping (Target).  Every plain item with a      *)
(* sigil among * § -- = {X}, without underscore and tilde, resolves to one *)
(* token, the item with * § -- {X} deleted and = replaced by a hyphen; the *)
(* span refers to that token, the annotation lists the sigils found, the   *)
(* counter is unchanged.                                                   *)
C10_StrippingAsStated ==
    [][(RoundDone /\ policy = "target" /\ IsStripItem(ItemAt(count)))
         => StripRound(ItemAt(count))]_vars

(* C10 as amended: the same for every such item that is neither a run of   *)
(* * only nor one of the bare tags {N}, {F}, {G}.                          *)
C10_Stripping ==
    [][(RoundDone /\ policy = "target" /\ IsStripItem(ItemAt(count))
          /\ ~AllStars(ItemAt(count)) /\ ~IsBareTag(ItemAt(count)))
         => StripRound(ItemAt(count))]_vars

\* "Haus=tür" resolved under Target to "Haus-tür"
C10_Witness ==
    /\ policy = "target"
    /\ pc = "returned"
    /\ \E i \in Positions :
          /\ IsStripItem(ItemAt(i))
          /\ Contains(ItemAt(i), <<"=">>)
          /\ HasSpan(i)
          /\ Contains(DictGet(tok, <<"tok", SpanIds(i)[1]>>), <<"-">>)


----------------------------------------------------------------------------
\* a bracketed item that is none of the literals and none of the shapes of
\* create_tok_span_anno_target
TargetNoShape(item) ==
    /\ Contains(item, <<"[">>)
    /\ ~IsSimpleBracket(item)
    /\ TargetComplexBracket(Locals0, 0, item) = Locals0

(* C11: when an item matches no general rule and no literal (here: a       *)
(* bracketed item that is none of the Target shapes), the call ends with   *)
(* an error instead of passing the item over and going on to return maps.  *)
C11_UnrecognizedRaises ==
    [][(/\ pc = "loop"
        /\ policy = "target"
        /\ count < Len(token_list)
        /\ TargetNoShape(ItemAt(count))) => pc' = "raised"]_vars

(* C12: tokenize returns a list for every text: an element whose brackets  *)
(* the joining loop cannot balance, also one with "[" at the last or the   *)
(* last but one place of the split list, never makes tokenize raise.       *)
C12_TokenizeNeverRaises == tpc # "raised"

----------------------------------------------------------------------------
\* the words of a text, and n of them from place p on as they stand in it
WordsOf(s) == SplitWs(s)

JoinWords(w, p, n) == JoinBlank(SubSeq(w, p, p + n - 1))

\* a word without brackets; a bracket group of two words, "[a b]"
IsWord(u) == u # <<>> /\ ~HasBracket(u) /\ ~Contains(u, <<" ">>)

IsGroup(u) ==
    /\ Len(u) >= 5
    /\ u[1] = "[" /\ u[Len(u)] = "]"
    /\ Count(u, "[") = 1 /\ Count(u, "]") = 1 /\ Count(u, " ") = 1
    /\ u[2] # " " /\ u[Len(u) - 1] # " "

\* a group alone or joined with _ : [a b], x_[a b], [a b]_x, [a b]_[c d],
\* x_[a b]_y
IsConstruct(u) ==
    LET parts == Split(u, <<"_">>)
    IN  \/ Len(parts) = 1 /\ IsGroup(parts[1])
        \/ /\ Len(parts) = 2
           /\ \/ IsWord(parts[1]) /\ IsGroup(parts[2])
              \/ IsGroup(parts[1]) /\ IsWord(parts[2])
              \/ IsGroup(parts[1]) /\ IsGroup(parts[2])
        \/ /\ Len(parts) = 3
           /\ IsWord(parts[1]) /\ IsGroup(parts[2]) /\ IsWord(parts[3])

\* the number of words of the construct that starts at word p, 0 for none
ConstructLen(w, p) ==
    IF p + 1 <= Len(w) /\ IsConstruct(JoinWords(w, p, 2)) THEN 2
    ELSE IF p + 2 <= Len(w) /\ IsConstruct(JoinWords(w, p, 3)) THEN 3
    ELSE 0

\* word q belongs to a construct that starts before it
Covered(w, q) == \E p \in 1..(q - 1) : q < p + ConstructLen(w, p)

\* the elements the text stands for: every construct as one element at its
\* place, every other word without brackets with its punctuation set off
Expected(s) ==
    LET w == WordsOf(s)
    IN  Flatten([q \in 1..Len(w) |->
                    IF Covered(w, q) THEN <<>>
                    ELSE IF ConstructLen(w, q) > 0
                    THEN <<JoinWords(w, q, ConstructLen(w, q))>>
                    ELSE IF HasBracket(w[q]) THEN <<>>
                    ELSE SplitWs(PadPunctuation(w[q]))],
                1, Len(w))

\* the text has a construct
HasConstruct(s) == \E p \in 1..Len(WordsOf(s)) : ConstructLen(WordsOf(s), p) > 0

\* every word of the text with a bracket belongs to a construct
WellFormed(s) ==
    \A q \in 1..Len(WordsOf(s)) :
        HasBracket(WordsOf(s)[q]) =>
            ConstructLen(WordsOf(s), q) > 0 \/ Covered(WordsOf(s), q)

\* a construct of the text is joined to a word that begins with Dann
JoinedToDann(s) == Contains(s, <<"]","_","D","a","n","n">>)

----------------------------------------------------------------------------
\* as many "[" as "]"
EqualBrackets(e) == Count(e, "[") = Count(e, "]")

RECURSIVE MergeAll(_, _)
\* the list after the rounds i, i + 1, ... of the joining loop
MergeAll(list, i) ==
    IF i >= Len(list) THEN list ELSE MergeAll(MergeAt(list, i).list, i + 1)

\* the list as the joining loop has left it to the removing loops
Merged == MergeAll(SplitWs(text), 0)

\* n elements in a row, from place p on, have unequal bracket counts
RunAt(list, p, n) ==
    p + n - 1 <= Len(list) /\ \A k \in p..(p + n - 1) : ~EqualBrackets(list[k])

\* at most three elements with unequal bracket counts stand in a row, and
\* no two elements with unequal bracket counts are equal
Tame(list) ==
    /\ \A p \in 1..Len(list) : ~RunAt(list, p, 4)
    /\ \A p, q \in 1..Len(list) :
          (p < q /\ ~EqualBrackets(list[p]) /\ ~EqualBrackets(list[q]))
              => list[p] # list[q]

----------------------------------------------------------------------------
(* C15: under both policies every value of the Span map is one token id   *)
(* or a list of token ids that is not empty and in increasing order of    *)
(* the ids; no span with an empty list is created, also not for an item   *)
(* that is a repetition tag only.                                         *)
C15_SpanValuesNonEmpty ==
    \A i \in 1..Len(span) :
        LET v == span[i].v
        IN  /\ Len(v.toks) >= 1
            /\ ~v.list => Len(v.toks) = 1
            /\ \A k \in 1..(Len(v.toks) - 1) : v.toks[k][2] < v.toks[k + 1][2]

----------------------------------------------------------------------------
----------------------------------------------------------------------------
(* C17: under both policies an item that is exactly {N}, {F} or {G}       *)
(* writes no token and no span, and the counter of insertions is lowered  *)
(* by one, so that the token id of the next item follows the last id.     *)
C17_BareTagEmitsNothing ==
    [][(RoundDone /\ IsBareTag(ItemAt(count))) =>
           /\ tok' = tok
           /\ span' = span
           /\ count_tok_insertions' = count_tok_insertions - 1]_vars

\* the annotation list of position j holds the tag
AnnoHolds(j, tag) ==
    /\ HasAnno(j)
    /\ \E k \in 1..Len(DictGet(anno, <<"sSpan", j>>)) :
          DictGet(anno, <<"sSpan", j>>)[k] = tag

(* C18: when an item that is exactly {N}, {F} or {G} has been resolved,   *)
(* its tag stands in the annotation list of a neighbouring position: it   *)
(* is merged into an adjacent span and not lost.                          *)
C18_BareTagMerged ==
    pc = "returned" =>
        \A i \in Positions :
            (IsBareTag(ItemAt(i)) /\ Len(token_list) >= 2) =>
                AnnoHolds(i - 1, ItemAt(i)) \/ AnnoHolds(i + 1, ItemAt(i))

----------------------------------------------------------------------------
\* a plain item with an underscore that is no repetition item and none of
\* the listed items, and has no tilde
IsUnderscoreItem(item) ==
    /\ ~HasBracket(item)
    /\ Count(item, "_") >= 1
    /\ FindAll(<<P_curlyDigit>>, item) = <<>>
    /\ ~IsRepetition(item)
    /\ ~TargetIsUnderscoreLiteral(item)
    /\ item # <<"C","h","a","m","p","i","o","n","s","{","F","}","~","_","l","e","a","g","u","e","{","F","}">>
    /\ ~Contains(item, <<"~">>)

\* a round on item has written one token for each of its k + 1 segments,
\* a span that lists them, k more insertions, and "_" in the annotation
SplitRoundShape(item) ==
    LET k    == Count(item, "_")
        base == count + count_tok_insertions
    IN  /\ Written = base..(base + k)
        /\ Len(tok') = Len(tok) + k + 1
        /\ DictHas(span', <<"sSpan", count>>)
        /\ DictGet(span', <<"sSpan", count>>)
             = [list |-> TRUE, toks |-> [j \in 1..(k + 1) |-> <<"tok", base + j - 1>>]]
        /\ count_tok_insertions' = count_tok_insertions + k
        /\ DictHas(anno', <<"sSpan", count>>)
        /\ \E j \in 1..Len(DictGet(anno', <<"sSpan", count>>)) :
              DictGet(anno', <<"sSpan", count>>)[j] = <<"_">>

\* the tokens of the round are the segments of item without their sigils
SplitRoundTexts(item) ==
    LET segs == Split(item, <<"_">>)
        base == count + count_tok_insertions
    IN  \A j \in 1..Len(segs) :
            /\ DictHas(tok', <<"tok", base + j - 1>>)
            /\ DictGet(tok', <<"tok", base + j - 1>>) = Stripped(segs[j])

----------------------------------------------------------------------------
\* an item "[a §]": a word a without sigils, and § as the right segment
IsExtraneous(item) ==
    /\ IsSimpleBracket(item)
    /\ Len(SplitWs(item)) = 2
    /\ SplitWs(item)[2] = <<"§","]">>
    /\ Sigils(SplitWs(item)[1]) = <<>>
    /\ Len(SplitWs(item)[1]) >= 2

\* the word a of an item "[a §]"
ExtraneousWord(item) == PyFrom(SplitWs(item)[1], 1)

\* the round has written nothing and has lowered the counter by one
DeletionRound ==
    /\ tok' = tok
    /\ span' = span
    /\ anno' = anno
    /\ count_tok_insertions' = count_tok_insertions - 1

----------------------------------------------------------------------------
\* an item "[§ b]" with a word b without sigils
IsMissingWord(item) ==
    /\ IsSimpleBracket(item)
    /\ Len(SplitWs(item)) = 2
    /\ SplitWs(item)[1] = <<"[","§">>
    /\ Len(SplitWs(item)[2]) >= 2
    /\ Sigils(SplitWs(item)[2]) = <<>>

\* the word b of an item "[§ b]"
MissingWord(item) == PyUpTo(SplitWs(item)[2], Len(SplitWs(item)[2]) - 1)

\* the token the item "[§ b]" stands for under the policy of the call
MissingWordToken(item) ==
    IF policy = "target" THEN MissingWord(item)
    ELSE IF MissingWord(item) = <<"f","e","h","l","e","n","d","e","s","w","o","r","t">> THEN <<"f","e","h","l","e","n","d","e","s","w","o","r","t",":","u","n","b","e","k","a","n","n","t">>
    ELSE <<"f","e","h","l","e","n","d","e","s","w","o","r","t",":"," ">> \o MissingWord(item)

(* C21: an item "[§ b]" resolves under each policy to exactly one token,  *)
(* one span of that token and the annotation [the item]; the token is b   *)
(* under Target, and under Achieved "fehlendeswort:unbekannt" when b is   *)
(* fehlendeswort and "fehlendeswort: b" for any other word b; the counter *)
(* of insertions is unchanged.                                            *)
C21_MissingWord ==
    [][(RoundDone /\ IsMissingWord(ItemAt(count))) =>
           LET key == <<"tok", count + count_tok_insertions>>
           IN  /\ Written = {count + count_tok_insertions}
               /\ Len(tok') = Len(tok) + 1
               /\ DictGet(tok', key) = MissingWordToken(ItemAt(count))
               /\ DictHas(span', <<"sSpan", count>>)
               /\ DictGet(span', <<"sSpan", count>>) = [list |-> FALSE, toks |-> <<key>>]
               /\ DictHas(anno', <<"sSpan", count>>)
               /\ DictGet(anno', <<"sSpan", count>>) = <<ItemAt(count)>>
               /\ count_tok_insertions' = count_tok_insertions]_vars

\* a returned Achieved call with "[§ fehlendeswort]" between two words
C21_Witness ==
    /\ pc = "returned"
    /\ policy = "achieved"
    /\ token_list = <<<<"W","o","l","f">>, <<"[","§"," ","f","e","h","l","e","n","d","e","s","w","o","r","t","]">>, <<"W","o","l","f">>>>
    /\ Len(tok) = 3
    /\ DictGet(tok, <<"tok", 1>>) = <<"f","e","h","l","e","n","d","e","s","w","o","r","t",":","u","n","b","e","k","a","n","n","t">>
    /\ SpanIds(1) = <<1>>

----------------------------------------------------------------------------
\* an item of two segments joined with _ , one of them or both a bracket
\* group of two words, without § and without sigils at its word
IsJoinedGroup(item) ==
    /\ ~Contains(item, <<"§">>)
    /\ Len(Split(item, <<"_">>)) = 2
    /\ IsConstruct(item)
    /\ \A k \in 1..2 :
          IsWord(Split(item, <<"_">>)[k]) =>
              FindAll(<<P_star, P_dd, P_eq, P_curlyAny, P_tilde>>,
                      Split(item, <<"_">>)[k]) = <<>>

\* the underscore and the bracket groups of the item from left to right
JoinedGroupTags(item) ==
    LET parts == Split(item, <<"_">>)
    IN  (IF IsGroup(parts[1]) THEN <<parts[1]>> ELSE <<>>)
        \o <<<<"_">>>>
        \o (IF IsGroup(parts[2]) THEN <<parts[2]>> ELSE <<>>)

\* what a segment stands for under Target: the word itself, of a group
\* the right word
TargetSegment(part) ==
    IF IsGroup(part)
    THEN PyUpTo(SplitWs(part)[2], Len(SplitWs(part)[2]) - 1)
    ELSE part

\* what a segment stands for under Achieved: the word itself, of a group
\* the left word
AchievedSegment(part) ==
    IF IsGroup(part) THEN PyFrom(SplitWs(part)[1], 1) ELSE part

\* the round has written two tokens with consecutive ids, one span that
\* lists them, one more insertion, and the annotation of the item
JoinedGroupRound(item) ==
    LET base == count + count_tok_insertions
    IN  /\ Written = {base, base + 1}
        /\ Len(tok') = Len(tok) + 2
        /\ DictHas(span', <<"sSpan", count>>)
        /\ DictGet(span', <<"sSpan", count>>)
             = [list |-> TRUE, toks |-> <<<<"tok", base>>, <<"tok", base + 1>>>>]
        /\ count_tok_insertions' = count_tok_insertions + 1
        /\ DictHas(anno', <<"sSpan", count>>)
        /\ DictGet(anno', <<"sSpan", count>>) = JoinedGroupTags(item)

(* C22 as stated: under either policy an item "a_[b c]", "[a b]_c" or     *)
(* "[a b]_[c d]" resolves to one token for each of its two segments, with *)
(* consecutive token ids listed in one span, and the annotation list      *)
(* holds the underscore and the bracket groups of the item from left to   *)
(* right.                                                                 *)
C22_JoinedGroupsAsStated ==
    [][(RoundDone /\ IsJoinedGroup(ItemAt(count)))
           => JoinedGroupRound(ItemAt(count))]_vars

(* C22: under the Target policy an item "a_[b c]", "[a b]_c" or           *)
(* "[a b]_[c d]" resolves to one token for each of its two segments, the  *)
(* word of a plain segment and the right word of a group, with            *)
(* consecutive token ids listed in one span, and the annotation list      *)
(* holds the underscore and the bracket groups of the item from left to   *)
(* right; under the Achieved policy it resolves to one token, the plain   *)
(* segments and the left words of the groups written together, with a     *)
(* span of that token and the annotation [the item].                      *)
C22_JoinedGroups ==
    [][(RoundDone /\ IsJoinedGroup(ItemAt(count))) =>
           LET item  == ItemAt(count)
               parts == Split(item, <<"_">>)
               base  == count + count_tok_insertions
           IN  IF policy = "target"
               THEN /\ JoinedGroupRound(item)
                    /\ DictGet(tok', <<"tok", base>>) = TargetSegment(parts[1])
                    /\ DictGet(tok', <<"tok", base + 1>>) = TargetSegment(parts[2])
               ELSE /\ Written = {base}
                    /\ Len(tok') = Len(tok) + 1
                    /\ DictGet(tok', <<"tok", base>>)
                         = AchievedSegment(parts[1]) \o AchievedSegment(parts[2])
                    /\ DictHas(span', <<"sSpan", count>>)
                    /\ DictGet(span', <<"sSpan", count>>)
                         = [list |-> FALSE, toks |-> <<<<"tok", base>>>>]
                    /\ DictHas(anno', <<"sSpan", count>>)
                    /\ DictGet(anno', <<"sSpan", count>>) = <<item>>
                    /\ count_tok_insertions' = count_tok_insertions]_vars

\* a returned Target call on two joined groups after a deletion
C22_Witness ==
    /\ pc = "returned"
    /\ policy = "target"
    /\ token_list = <<<<"[","s","a","h","e","n"," ","§","]">>, <<"[","i"," ","i","n","]","_","[","e","m"," ","d","e","n","]">>>>
    /\ Len(tok) = 2
    /\ DictGet(tok, <<"tok", 0>>) = <<"i","n">>
    /\ DictGet(tok, <<"tok", 1>>) = <<"d","e","n">>
    /\ SpanIds(1) = <<0, 1>>
    /\ DictGet(anno, <<"sSpan", 1>>) = <<<<"[","i"," ","i","n","]">>, <<"_">>, <<"[","e","m"," ","d","e","n","]">>>>

----------------------------------------------------------------------------
\* a plain item a_b{n} or a{n}_b with one underscore and one repetition tag
IsFusedRepetition(item) ==
    /\ ~HasBracket(item)
    /\ Count(item, "_") = 1
    /\ Len(FindAll(<<P_curlyDigit>>, item)) = 1
    /\ FindAll(<<P_curlyDigit>>, item)[1][2] \in {"2", "3", "4"}
    /\ \/ EndsWith(item, FindAll(<<P_curlyDigit>>, item)[1])
       \/ EndsWith(Split(item, <<"_">>)[1], FindAll(<<P_curlyDigit>>, item)[1])

\* the n of its tag, and its two words
FusedCount(item) == IntOfChar(FindAll(<<P_curlyDigit>>, item)[1][2])

FusedWords(item) == Split(Sub(P_curlyDigit, <<>>, item), <<"_">>)

\* the tokens the item stands for: a_b{n} is ab and n - 1 times b,
\* a{n}_b is n - 1 times a and ab
FusedTokens(item) ==
    LET n == FusedCount(item)
        a == FusedWords(item)[1]
        b == FusedWords(item)[2]
    IN  IF EndsWith(item, FindAll(<<P_curlyDigit>>, item)[1])
        THEN [j \in 1..n |-> IF j = 1 THEN a \o b ELSE b]
        ELSE [j \in 1..n |-> IF j = n THEN a \o b ELSE a]

(* C23: under Achieved an item a_b{n} resolves to the fused token ab and  *)
(* n - 1 copies of b, and an item a{n}_b to n - 1 copies of a and the     *)
(* fused token ab; in both forms n tokens with n consecutive token ids    *)
(* are listed in one span and the counter grows by n - 1.                 *)
C23_FusedRepetition ==
    [][(RoundDone /\ policy = "achieved" /\ IsFusedRepetition(ItemAt(count))) =>
           LET item == ItemAt(count)
               n    == FusedCount(item)
               base == count + count_tok_insertions
           IN  /\ Written = base..(base + n - 1)
               /\ \A j \in 1..n :
                     /\ DictHas(tok', <<"tok", base + j - 1>>)
                     /\ DictGet(tok', <<"tok", base + j - 1>>) = FusedTokens(item)[j]
               /\ DictHas(span', <<"sSpan", count>>)
               /\ DictGet(span', <<"sSpan", count>>)
                    = [list |-> TRUE, toks |-> [j \in 1..n |-> <<"tok", base + j - 1>>]]
               /\ count_tok_insertions' = count_tok_insertions + n - 1]_vars

----------------------------------------------------------------------------
\* a sigil that is a tag with a digit
IsDigitTag(s) == Len(s) = 3 /\ s[1] = "{" /\ s[2] \in Digits /\ s[3] = "}"

\* the sigils of an item that are no tag with a digit, in their order
OtherSigils(item) == SelectSeq(Sigils(item), LAMBDA s : ~IsDigitTag(s))

(* C24: for every repetition item under Achieved the annotation list of   *)
(* the span is the repetition tag "{n}" first and then the other sigils   *)
(* of the item, each once for each occurrence in the item and in their    *)
(* order from left to right ("den{G}{2}" gives ["{2}", "{G}"]).           *)
C24_RepetitionAnnotation ==
    [][(/\ RoundDone
        /\ policy = "achieved"
        /\ ~HasBracket(ItemAt(count))
        /\ IsRepetition(ItemAt(count))) =>
           /\ DictHas(anno', <<"sSpan", count>>)
           /\ DictGet(anno', <<"sSpan", count>>)
                = <<FindAll(<<P_curlyDigit>>, ItemAt(count))[1]>>
                    \o OtherSigils(ItemAt(count))]_vars

----------------------------------------------------------------------------
\* an item without brackets that is no repetition item and does not
\* consist of asterisks only
IsPlainSigilItem(item) ==
    /\ ~HasBracket(item)
    /\ ~IsRepetition(item)
    /\ ~AllStars(item)

(* C25: under both policies the annotation list of the span of a          *)
(* non-repetition item is the sequence of the sigils of the item in the   *)
(* order from left to right in which they stand in it, each occurrence    *)
(* once: an underscore that stands before another sigil is listed before  *)
(* it.  Stated for the items without brackets whose round writes an       *)
(* annotation list.                                                       *)
C25_AnnotationOrder ==
    [][(/\ RoundDone
        /\ IsPlainSigilItem(ItemAt(count))
        /\ DictHas(anno', <<"sSpan", count>>)) =>
           DictGet(anno', <<"sSpan", count>>) = Sigils(ItemAt(count))]_vars

----------------------------------------------------------------------------
\* an item without brackets that holds * and at least one other character
IsAsteriskItem(item) ==
    ~HasBracket(item) /\ Contains(item, <<"*">>) /\ ~AllStars(item)

\* the list holds the tag
ListHolds(list, tag) == \E k \in 1..Len(list) : list[k] = tag

(* C26: asterisk handling.  For an item without brackets that holds * and *)
(* at least one other character, "*" stands in the annotation list under  *)
(* both policies; the tokens written under Achieved keep the * of the     *)
(* item, and no token written under Target holds a *.                     *)
C26_Asterisk ==
    [][(RoundDone /\ IsAsteriskItem(ItemAt(count))) =>
          LET d    == Decomposition(tok', span', anno', count)
              joined == Flatten(d.texts, 1, Len(d.texts))
          IN  /\ d.span
              /\ d.anno # <<>>
              /\ ListHolds(d.anno[1], <<"*">>)
              /\ (policy = "target") => Count(joined, "*") = 0
              /\ (policy = "achieved") =>
                     Count(joined, "*") >= Count(ItemAt(count), "*")]_vars

----------------------------------------------------------------------------
\* an item without brackets that holds a tilde
IsTildeItem(item) == ~HasBracket(item) /\ Contains(item, <<"~">>)

(* C27: tilde handling (Target).  For every item without brackets that    *)
(* holds ~, with or without another sigil or an underscore, no token      *)
(* written under Target holds the character ~ and "~" stands in the       *)
(* annotation list of the span.                                           *)
C27_TildeTarget ==
    [][(RoundDone /\ policy = "target" /\ IsTildeItem(ItemAt(count))) =>
          LET d      == Decomposition(tok', span', anno', count)
              joined == Flatten(d.texts, 1, Len(d.texts))
          IN  /\ d.span
              /\ Count(joined, "~") = 0
              /\ d.anno # <<>>
              /\ ListHolds(d.anno[1], <<"~">>)]_vars

----------------------------------------------------------------------------
\* every token id of the span at position j is greater than every token id
\* of a span at a position before j
IdsFollowPositions ==
    \A i, j \in Positions :
        (i < j /\ HasSpan(i) /\ HasSpan(j)) =>
            \A a \in 1..Len(SpanIds(i)) : \A b \in 1..Len(SpanIds(j)) :
                SpanIds(i)[a] < SpanIds(j)[b]

\* a round leaves the tokens of the earlier items as they are
EarlierTokensKept ==
    \A key \in DictKeys(tok) :
        DictHas(tok', key) /\ DictGet(tok', key) = DictGet(tok, key)

(* C28: when a call returns, under either policy and also when items were *)
(* passed over without output, the token ids rise with the position: each *)
(* token id of the span at position j is greater than each token id of a  *)
(* span at a position i < j, so no token id stands in two spans; and no   *)
(* round writes over a token of an earlier item.                          *)
C28_IdsRiseWithPosition ==
    [][/\ RoundDone => EarlierTokensKept
       /\ (pc' = "returned") => IdsFollowPositions']_vars

\* a call has returned after an item without output and an item of two
\* tokens that stands after an item with a token
C28_Witness ==
    /\ pc = "returned"
    /\ \E k \in Positions : ~HasSpan(k)
    /\ \E i, j \in Positions :
          /\ i < j
          /\ HasSpan(i) /\ Len(SpanIds(i)) >= 1
          /\ HasSpan(j) /\ Len(SpanIds(j)) >= 2

----------------------------------------------------------------------------
\* the places (position, index in the span's list) that refer to token id
RefsTo(id) ==
    UNION {{<<i, a>> : a \in {b \in 1..Len(SpanIds(i)) : SpanIds(i)[b] = id}} :
              i \in {p \in Positions : HasSpan(p)}}

(* C29: referential integrity of the returned maps under both policies.   *)
(* Every token id a span refers to is a key of the token map, and every   *)
(* key of the token map is referred to by exactly one span, at one place: *)
(* the token of the whole item written before an underscore or a tilde    *)
(* split is written over by the first segment and is never left without a *)
(* span.                                                                  *)
C29_ReferentialIntegrity ==
    pc = "returned" =>
        /\ \A i \in Positions :
              HasSpan(i) => \A a \in 1..Len(SpanIds(i)) : SpanIds(i)[a] \in TokIds
        /\ \A id \in TokIds : Cardinality(RefsTo(id)) = 1

\* a Target call has returned with an item split at its underscore or at
\* its tilde, whose first token was first written for the whole item
C29_Witness ==
    /\ pc = "returned"
    /\ policy = "target"
    /\ \E i, j \in Positions :
          /\ ~HasBracket(ItemAt(i)) /\ Contains(ItemAt(i), <<"_">>)
          /\ Len(Sigils(ItemAt(i))) >= 2
          /\ HasSpan(i) /\ Len(SpanIds(i)) >= 2
          /\ ~HasBracket(ItemAt(j)) /\ Contains(ItemAt(j), <<"~">>)
          /\ HasSpan(j) /\ Len(SpanIds(j)) = 2

----------------------------------------------------------------------------
\* the numeric ids of the keys of a dictionary rise in the order in which
\* the keys were inserted
KeysAscend(d) == \A k \in 1..(Len(d) - 1) : d[k].k[2] < d[k + 1].k[2]

\* the greatest id is len(toks) - 1
LastIsGreatest(d) == d[Len(d)].k = TokKey(Len(d) - 1)

(* C30: under both policies the tokens enter the token map in strictly    *)
(* ascending order of their numeric ids: a step of the call only appends  *)
(* keys, a key that is written again keeps its place, and the keys rise   *)
(* in insertion order, so iterating the map visits the tokens in          *)
(* ascending id order; when the ids are contiguous from 0, the key        *)
(* tok{len(toks) - 1} is the last and greatest one.                       *)
C30_InsertionOrder ==
    [][(pc = "loop") =>
          /\ Len(tok') >= Len(tok)
          /\ \A k \in 1..Len(tok) : tok'[k].k = tok[k].k
          /\ KeysAscend(tok')
          /\ (tok' # <<>> /\ DictKeys(tok') = {TokKey(n) : n \in 0..(Len(tok') - 1)})
                => LastIsGreatest(tok')]_vars

\* a call has returned three or more tokens with contiguous ids, two of
\* them for an item whose first token was written twice
C30_Witness ==
    /\ pc = "returned"
    /\ Len(tok) >= 3
    /\ TokIds = 0..(Len(tok) - 1)
    /\ \E i \in Positions :
          /\ policy = "target"
          /\ ItemAt(i) = <<"e","s","_","w","i","s","-","-","s","e","n">>
          /\ HasSpan(i) /\ SpanIds(i) = <<i, i + 1>>
====
